---------------------------- MODULE Spec2Model ----------------------------
(***************************************************************************)
(* A model of the ext-prof extension runtime profiler of dotagents:        *)
(* the aggregate collector (collector.ts), the timing wrapper              *)
(* (wrapper.ts), the runtime patcher (patcher.ts) and the controller       *)
(* (commands.ts, index.ts).                                                *)
(*                                                                         *)
(* Strings are sequences of tokens; a token stands for one or more         *)
(* characters ("a", " ", the unit separator U+001F, the surface words).    *)
(* String concatenation is \o, so a key built by a template literal is     *)
(* the concatenation the code computes, collisions included.               *)
(***************************************************************************)
EXTENDS Integers, Sequences, FiniteSets, Bags, TLC

(***************************************************************************)
(* Bounds of the model.                                                    *)
(***************************************************************************)
\* recordInvocation calls made on one collector between two resets
MaxRecords == 3
\* largest maxHandlers a harness collector is created with
MaxHandlersArg == 2
\* function objects that may exist (originals and wrappers)
MaxFns == 9
\* most runs of one patchedBindCore closure
MaxBindCoreCalls == 2
\* most aggregate rows given to saveSnapshot
MaxRows == 3
\* processes that run one after the other (a process ends when interrupted)
MaxProcesses == 2
\* warnings the session_start handler surfaces in one process
MaxWarnings == 2
\* largest duration, beside those of the test, given to computeOverheadPct
MaxOverheadMs == 6
\* wrappers made by direct calls of the wrap functions
MaxWrapCalls == 1
\* calls of callables in flight together, and calls of wrapped callables made
\* between two resets
MaxCalls == 2
\* before_agent_start handlers of the beads extension that await `br` at once
MaxPriming == 2
\* context reminders of the beads extension counted since the flag's last reset
MaxReminders == 2
\* runners constructed in one process
MaxRunners == 2

(***************************************************************************)
(* Program constants.                                                      *)
(***************************************************************************)
\* index.ts: createCollector({ maxHandlers: 10_000 })
ProfilerMaxHandlers == 10000
\* collector.test.ts: createCollector({ maxHandlers: 1 })
TestMaxHandlers == 1

\* the readings of now(): instants, in milliseconds
Instants == {0, 1}

\* U+001F, the separator of keyOf
US == "\\u001f"
\* createCollector's default for unknownExtensionKey
DefaultUnknownExtensionKey == <<"<unknown-extension>">>
\* type Surface
Surface == {"event", "command", "tool"}

(***************************************************************************)
(* Strings and optional strings.                                           *)
(***************************************************************************)
Some(s) == [defined |-> TRUE, value |-> s]
Undefined == [defined |-> FALSE, value |-> <<>>]

RECURSIVE TrimStart(_)
TrimStart(s) ==
    IF s # <<>> /\ Head(s) = " " THEN TrimStart(Tail(s)) ELSE s

RECURSIVE TrimEnd(_)
TrimEnd(s) ==
    IF s # <<>> /\ s[Len(s)] = " " THEN TrimEnd(SubSeq(s, 1, Len(s) - 1)) ELSE s

\* String.prototype.trim
Trim(s) == TrimEnd(TrimStart(s))

Max(a, b) == IF a >= b THEN a ELSE b

(***************************************************************************)
(* A JavaScript Map: entries in insertion order; set on a present key      *)
(* keeps the entry's place.                                                *)
(***************************************************************************)
MapHas(m, k) == \E i \in 1..Len(m) : m[i].key = k
MapIndex(m, k) == CHOOSE i \in 1..Len(m) : m[i].key = k
MapGet(m, k) == m[MapIndex(m, k)].value
MapSet(m, k, v) ==
    IF MapHas(m, k)
    THEN [m EXCEPT ![MapIndex(m, k)] = [key |-> k, value |-> v]]
    ELSE Append(m, [key |-> k, value |-> v])
MapSize(m) == Len(m)
MapKeys(m) == {m[i].key : i \in 1..Len(m)}

(***************************************************************************)
(* collector.ts                                                            *)
(***************************************************************************)
createCollector(maxHandlers, unknownExtensionKey) ==
    [maxHandlers |-> maxHandlers,
     unknownExtensionKey |->
        IF unknownExtensionKey.defined THEN unknownExtensionKey.value
        ELSE DefaultUnknownExtensionKey,
     extensionTotals |-> <<>>,
     handlerTotals |-> <<>>,
     droppedNewKeys |-> 0,
     warnedCardinality |-> FALSE]

keyOfJoined(extensionPath, surface, name) == extensionPath \o <<surface>> \o name
keyOf(extensionPath, surface, name) ==
    extensionPath \o <<US>> \o <<surface>> \o <<US>> \o name

ZeroAggregate == [calls |-> 0, totalMs |-> 0, maxMs |-> 0, errorCount |-> 0]

upsertAggregateKeepsLastMs(target, key, ms, ok) ==
    LET row == IF MapHas(target, key) THEN MapGet(target, key) ELSE ZeroAggregate
    IN  MapSet(target, key,
               [calls |-> row.calls + 1,
                totalMs |-> row.totalMs + ms,
                maxMs |-> ms,
                errorCount |-> IF ok THEN row.errorCount ELSE row.errorCount + 1])

upsertAggregate(target, key, ms, ok) ==
    LET row == IF MapHas(target, key) THEN MapGet(target, key) ELSE ZeroAggregate
    IN  MapSet(target, key,
               [calls |-> row.calls + 1,
                totalMs |-> row.totalMs + ms,
                maxMs |-> Max(row.maxMs, ms),
                errorCount |-> IF ok THEN row.errorCount ELSE row.errorCount + 1])

\* the extension identity a sample is stored under (collector.ts line 53)
extensionPathOf(collector, sample) ==
    IF sample.extensionPath.defined /\ Trim(sample.extensionPath.value) # <<>>
    THEN sample.extensionPath.value
    ELSE collector.unknownExtensionKey

handlerKeyOf(collector, sample) ==
    keyOf(extensionPathOf(collector, sample), sample.surface, sample.name)

isDroppedOffByOne(collector, sample) ==
    /\ ~MapHas(collector.handlerTotals, handlerKeyOf(collector, sample))
    /\ MapSize(collector.handlerTotals) > collector.maxHandlers

\* the guard of the early return (collector.ts line 56)
isDropped(collector, sample) ==
    /\ ~MapHas(collector.handlerTotals, handlerKeyOf(collector, sample))
    /\ MapSize(collector.handlerTotals) >= collector.maxHandlers

recordInvocationNoCap(collector, sample) ==
    LET extensionPath == extensionPathOf(collector, sample)
        handlerKey == handlerKeyOf(collector, sample)
        row == IF MapHas(collector.handlerTotals, handlerKey)
               THEN MapGet(collector.handlerTotals, handlerKey)
               ELSE [extensionPath |-> extensionPath, surface |-> sample.surface,
                     name |-> sample.name,
                     calls |-> 0, totalMs |-> 0, maxMs |-> 0, errorCount |-> 0]
    IN  [collector EXCEPT
            !.extensionTotals =
                upsertAggregate(@, extensionPath, sample.ms, sample.ok),
            !.handlerTotals =
                MapSet(@, handlerKey,
                       [row EXCEPT
                          !.calls = @ + 1,
                          !.totalMs = @ + sample.ms,
                          !.maxMs = Max(@, sample.ms),
                          !.errorCount = IF sample.ok THEN @ ELSE @ + 1])]

recordInvocationDropTouchesExtension(collector, sample) ==
    IF isDropped(collector, sample)
    THEN [collector EXCEPT
            !.droppedNewKeys = @ + 1,
            !.extensionTotals =
                upsertAggregate(@, extensionPathOf(collector, sample),
                                sample.ms, sample.ok)]
    ELSE recordInvocationNoCap(collector, sample)

recordInvocationCapAll(collector, sample) ==
    IF MapSize(collector.handlerTotals) >= collector.maxHandlers
    THEN [collector EXCEPT !.droppedNewKeys = @ + 1]
    ELSE recordInvocationNoCap(collector, sample)

recordInvocationDropCountedOnce(collector, sample) ==
    IF isDropped(collector, sample)
    THEN [collector EXCEPT !.droppedNewKeys = 1]
    ELSE recordInvocationNoCap(collector, sample)

recordInvocation(collector, sample) ==
    IF isDropped(collector, sample)
    THEN [collector EXCEPT !.droppedNewKeys = @ + 1]
    ELSE recordInvocationNoCap(collector, sample)

resetCollectorKeepsDropped(collector) ==
    [collector EXCEPT
        !.extensionTotals = <<>>,
        !.handlerTotals = <<>>,
        !.warnedCardinality = FALSE]

resetCollector(collector) ==
    [collector EXCEPT
        !.extensionTotals = <<>>,
        !.handlerTotals = <<>>,
        !.droppedNewKeys = 0,
        !.warnedCardinality = FALSE]


RECURSIVE sortByTotalMsTiesReversed(_)
sortByTotalMsTiesReversed(rows) ==
    IF rows = <<>> THEN <<>>
    ELSE LET sorted == sortByTotalMsTiesReversed(Tail(rows))
             before == SelectSeq(sorted, LAMBDA r : r.totalMs >= Head(rows).totalMs)
             after == SelectSeq(sorted, LAMBDA r : r.totalMs < Head(rows).totalMs)
         IN  before \o <<Head(rows)>> \o after

\* Array.prototype.sort with (a, b) => b.totalMs - a.totalMs: stable, by
\* totalMs descending
RECURSIVE sortByTotalMs(_)
sortByTotalMs(rows) ==
    IF rows = <<>> THEN <<>>
    ELSE LET sorted == sortByTotalMs(Tail(rows))
             before == SelectSeq(sorted, LAMBDA r : r.totalMs > Head(rows).totalMs)
             after == SelectSeq(sorted, LAMBDA r : r.totalMs <= Head(rows).totalMs)
         IN  before \o <<Head(rows)>> \o after

\* summarizeByExtension(collector)
summarizeByExtension(collector) ==
    sortByTotalMs([i \in 1..Len(collector.extensionTotals) |->
                      [extensionPath |-> collector.extensionTotals[i].key,
                       calls |-> collector.extensionTotals[i].value.calls,
                       totalMs |-> collector.extensionTotals[i].value.totalMs,
                       maxMs |-> collector.extensionTotals[i].value.maxMs,
                       errorCount |-> collector.extensionTotals[i].value.errorCount]])

\* summarizeByHandler(collector)
summarizeByHandler(collector) ==
    sortByTotalMs([i \in 1..Len(collector.handlerTotals) |->
                      collector.handlerTotals[i].value])

(***************************************************************************)
(* wrapper.ts.  Function objects live in a heap, a sequence of records; a  *)
(* function's identity is its index.  A wrapper carries the WRAPPED marker *)
(* and the arguments wrapWithTiming closed over.                           *)
(***************************************************************************)
OriginalFn ==
    [wrapped |-> FALSE, extensionPath |-> <<>>, surface |-> "event",
     name |-> <<>>, collector |-> 0, handler |-> 0]

\* Boolean(fn[WRAPPED])
isWrappedNever(heap, fn) == FALSE
isWrapped(heap, fn) == heap[fn].wrapped

\* the result of a wrap call: the function returned and the heap after it
wrapWithTiming(heap, args) ==
    IF isWrapped(heap, args.handler)
    THEN [fn |-> args.handler, heap |-> heap]
    ELSE [fn |-> Len(heap) + 1,
          heap |-> Append(heap,
                          [wrapped |-> TRUE,
                           extensionPath |-> args.extensionPath,
                           surface |-> args.surface,
                           name |-> args.name,
                           collector |-> args.collector,
                           handler |-> args.handler])]

wrapEventHandler(heap, args) ==
    wrapWithTiming(heap, [extensionPath |-> args.extensionPath, surface |-> "event",
                          name |-> args.eventType, collector |-> args.collector,
                          handler |-> args.handler])

wrapCommandHandlerAsEvent(heap, args) ==
    wrapWithTiming(heap, [extensionPath |-> args.extensionPath, surface |-> "event",
                          name |-> args.commandName, collector |-> args.collector,
                          handler |-> args.handler])
wrapCommandHandler(heap, args) ==
    wrapWithTiming(heap, [extensionPath |-> args.extensionPath, surface |-> "command",
                          name |-> args.commandName, collector |-> args.collector,
                          handler |-> args.handler])

wrapToolExecute(heap, args) ==
    wrapWithTiming(heap, [extensionPath |-> args.extensionPath, surface |-> "tool",
                          name |-> args.toolName, collector |-> args.collector,
                          handler |-> args.handler])

\* The callTimed activations one call of fn starts, outermost first: a wrapper
\* calls callTimed, which reads the clock and applies the function it wraps.
RECURSIVE callTimedFrames(_, _, _)
callTimedFrames(heap, fn, now) ==
    IF heap[fn].wrapped
    THEN <<[extensionPath |-> heap[fn].extensionPath, surface |-> heap[fn].surface,
            name |-> heap[fn].name, collector |-> heap[fn].collector,
            start |-> now]>>
         \o callTimedFrames(heap, heap[fn].handler, now)
    ELSE <<>>

\* the function that finally runs: the original under the wrappers
RECURSIVE originalOf(_, _)
originalOf(heap, fn) ==
    IF heap[fn].wrapped THEN originalOf(heap, heap[fn].handler) ELSE fn

\* Math.max(0, now() - start)
elapsedMsUnfloored(start, now) == now - start
elapsedMs(start, now) == Max(0, now - start)

\* `await args.fn.apply(...)`: callTimed goes on only when the value the
\* original returned has settled
awaitsNothing == FALSE
awaitsSettlement == TRUE

\* what the caller of callTimed gets: the try block returns the result, the
\* finally block neither returns nor throws, so a rejection passes through
callTimedOutcomeSwallowed(outcome) == [kind |-> "fulfilled", payload |-> "undefined"]
callTimedOutcome(outcome) == outcome

\* the sample one callTimed activation records in its finally block
sampleOf(frame, now, outcome) ==
    [extensionPath |-> Some(frame.extensionPath),
     surface |-> frame.surface,
     name |-> frame.name,
     ms |-> elapsedMs(frame.start, now),
     ok |-> outcome.kind = "fulfilled"]

\* The finally blocks of an invocation's callTimed activations, innermost
\* first, each recording into the collector its wrapper closed over.
RECURSIVE recordFrames(_, _, _, _)
recordFrames(cols, frames, now, outcome) ==
    IF frames = <<>> THEN cols
    ELSE LET frame == frames[Len(frames)]
             c == frame.collector
         IN  recordFrames(
                 [cols EXCEPT ![c] = recordInvocation(@, sampleOf(frame, now, outcome))],
                 SubSeq(frames, 1, Len(frames) - 1), now, outcome)

RECURSIVE outcomeThrough(_, _)
outcomeThrough(frames, outcome) ==
    IF frames = <<>> THEN outcome
    ELSE outcomeThrough(SubSeq(frames, 1, Len(frames) - 1), callTimedOutcome(outcome))

\* How the caller gets the outcome: "sync" (a value returned or an error
\* thrown by the call itself) or "promise".  wrappedCall is an async function,
\* so a call of a wrapper returns a promise whatever the original does.
wrappedCallDelivery(frames, delivery) ==
    IF frames = <<>> THEN delivery ELSE "promise"

(***************************************************************************)
(* patcher.ts                                                              *)
(***************************************************************************)
AllMissing == [events |-> "missing", commands |-> "missing", tools |-> "missing"]

\* A PatchStatus.  Its coverage is an object: coverageOf 0 is the status's own
\* literal (all "missing", never written again), coverageOf k > 0 is the
\* coverage object of the k-th patchedBindCore closure on the prototype, which
\* that closure rewrites on every bindCore call.
PatchStatus(patched, reason, coverageOf) ==
    [patched |-> patched, reason |-> reason, coverageOf |-> coverageOf]

\* patchRunnerPrototype: the status returned and the prototype after it.  The
\* prototype is its PATCHED marker and the patchedBindCore closures layered on
\* the original bindCore, innermost first.
\* A closure also counts its runs, for the claims about repeated bindCore.
NewClosure(args) ==
    [collector |-> args.collector, shouldRecord |-> args.shouldRecord,
     coverage |-> AllMissing, runs |-> 0]

patchRunnerPrototypeUnguarded(proto, args) ==
    [status |-> PatchStatus(TRUE, "patched", Len(proto.bindCore) + 1),
     proto |-> [patched |-> TRUE,
                bindCore |-> Append(proto.bindCore, NewClosure(args))]]
patchRunnerPrototype(proto, args) ==
    IF proto.patched
    THEN [status |-> PatchStatus(FALSE, "already patched", 0), proto |-> proto]
    ELSE [status |-> PatchStatus(TRUE, "patched", Len(proto.bindCore) + 1),
          proto |-> [patched |-> TRUE,
                     bindCore |-> Append(proto.bindCore, NewClosure(args))]]

\* The loops of patchedBindCore thread the heap through the wrap calls: each
\* takes what the loop has done so far (the heap and the entries or
\* extensions already rewritten) and gives it back with one more done.
WithHandler(acc, wrapped) ==
    [heap |-> wrapped.heap, out |-> Append(acc.out, wrapped.fn)]
WithHandlers(acc, key, list) ==
    [heap |-> list.heap, out |-> Append(acc.out, [key |-> key, value |-> list.out])]
WithCallable(acc, key, wrapped) ==
    [heap |-> wrapped.heap,
     out |-> Append(acc.out, [key |-> key, value |-> wrapped.fn])]

\* handlers.map((handler) => wrapEventHandler({...}))
RECURSIVE wrapHandlerList(_, _, _, _, _)
wrapHandlerList(acc, handlers, extensionPath, eventType, closure) ==
    IF handlers = <<>> THEN acc
    ELSE wrapHandlerList(
             WithHandler(acc, wrapEventHandler(acc.heap,
                 [extensionPath |-> extensionPath, eventType |-> eventType,
                  collector |-> closure.collector, handler |-> Head(handlers),
                  shouldRecord |-> closure.shouldRecord])),
             Tail(handlers), extensionPath, eventType, closure)

\* for (const [eventType, handlers] of ext.handlers.entries()) ext.handlers.set(...)
RECURSIVE wrapHandlersMap(_, _, _, _)
wrapHandlersMap(acc, entries, extensionPath, closure) ==
    IF entries = <<>> THEN acc
    ELSE wrapHandlersMap(
             WithHandlers(acc, Head(entries).key,
                 wrapHandlerList([heap |-> acc.heap, out |-> <<>>],
                                 Head(entries).value, extensionPath,
                                 Head(entries).key, closure)),
             Tail(entries), extensionPath, closure)

\* for (const [commandName, command] of ext.commands.entries()) command.handler = ...
RECURSIVE wrapCommandsMap(_, _, _, _)
wrapCommandsMap(acc, entries, extensionPath, closure) ==
    IF entries = <<>> THEN acc
    ELSE wrapCommandsMap(
             WithCallable(acc, Head(entries).key, wrapCommandHandler(acc.heap,
                 [extensionPath |-> extensionPath,
                  commandName |-> Head(entries).key,
                  collector |-> closure.collector,
                  handler |-> Head(entries).value,
                  shouldRecord |-> closure.shouldRecord])),
             Tail(entries), extensionPath, closure)

\* for (const [toolName, tool] of ext.tools.entries()) tool.definition.execute = ...
RECURSIVE wrapToolsMap(_, _, _, _)
wrapToolsMap(acc, entries, extensionPath, closure) ==
    IF entries = <<>> THEN acc
    ELSE wrapToolsMap(
             WithCallable(acc, Head(entries).key, wrapToolExecute(acc.heap,
                 [extensionPath |-> extensionPath,
                  toolName |-> Head(entries).key,
                  collector |-> closure.collector,
                  handler |-> Head(entries).value,
                  shouldRecord |-> closure.shouldRecord])),
             Tail(entries), extensionPath, closure)

\* A collection of an extension: kind "Map" (instanceof Map holds), "absent"
\* (undefined) or "object" (some other shape); entries are a Map's entries.
IsMap(collection) == collection.kind = "Map"

\* const extensionPath = ext.path ?? "<unknown-extension>"
pathOf(ext) == IF ext.path.defined THEN ext.path.value ELSE DefaultUnknownExtensionKey

\* The three blocks of the loop body.  st is the heap, the extension and
\* nextCoverage so far.
HandlersPatched(st, done) ==
    [heap |-> done.heap,
     ext |-> [st.ext EXCEPT !.handlers.entries = done.out],
     nextCoverage |-> [st.nextCoverage EXCEPT !.events = "instrumented"]]
CommandsPatched(st, done) ==
    [heap |-> done.heap,
     ext |-> [st.ext EXCEPT !.commands.entries = done.out],
     nextCoverage |-> [st.nextCoverage EXCEPT !.commands = "instrumented"]]
ToolsPatched(st, done) ==
    [heap |-> done.heap,
     ext |-> [st.ext EXCEPT !.tools.entries = done.out],
     nextCoverage |-> [st.nextCoverage EXCEPT !.tools = "instrumented"]]

\* if (ext.handlers instanceof Map) { ... }
patchHandlers(st, closure) ==
    IF IsMap(st.ext.handlers)
    THEN HandlersPatched(st, wrapHandlersMap([heap |-> st.heap, out |-> <<>>],
                                             st.ext.handlers.entries,
                                             pathOf(st.ext), closure))
    ELSE st

\* if (ext.commands instanceof Map) { ... }
patchCommandsNeedsTools(st, closure) ==
    IF IsMap(st.ext.commands) /\ IsMap(st.ext.tools)
    THEN CommandsPatched(st, wrapCommandsMap([heap |-> st.heap, out |-> <<>>],
                                             st.ext.commands.entries,
                                             pathOf(st.ext), closure))
    ELSE st
patchCommands(st, closure) ==
    IF IsMap(st.ext.commands)
    THEN CommandsPatched(st, wrapCommandsMap([heap |-> st.heap, out |-> <<>>],
                                             st.ext.commands.entries,
                                             pathOf(st.ext), closure))
    ELSE st

\* if (ext.tools instanceof Map) { ... }
patchTools(st, closure) ==
    IF IsMap(st.ext.tools)
    THEN ToolsPatched(st, wrapToolsMap([heap |-> st.heap, out |-> <<>>],
                                       st.ext.tools.entries,
                                       pathOf(st.ext), closure))
    ELSE st

\* the body of the loop over extensions for one extension
patchExtension(st, closure) ==
    patchTools(patchCommands(patchHandlers(st, closure), closure), closure)

WithExtension(acc, done) ==
    [heap |-> done.heap,
     extensions |-> Append(acc.extensions, done.ext),
     nextCoverage |-> done.nextCoverage]

\* for (const ext of this.extensions ?? [])
RECURSIVE patchExtensions(_, _, _)
patchExtensions(acc, extensions, closure) ==
    IF extensions = <<>> THEN acc
    ELSE patchExtensions(
             WithExtension(acc, patchExtension([heap |-> acc.heap,
                                                ext |-> Head(extensions),
                                                nextCoverage |-> acc.nextCoverage],
                                               closure)),
             Tail(extensions), closure)

\* coverage.events = nextCoverage.events; ... at the end of patchedBindCore
CoverageAssignedOnceInstrumented(closure, walked) ==
    [heap |-> walked.heap,
     extensions |-> walked.extensions,
     closure |-> [closure EXCEPT
                     !.coverage =
                         [surface \in DOMAIN walked.nextCoverage |->
                             IF closure.coverage[surface] = "instrumented"
                             THEN "instrumented"
                             ELSE walked.nextCoverage[surface]],
                     !.runs = @ + 1]]
CoverageAssigned(closure, walked) ==
    [heap |-> walked.heap,
     extensions |-> walked.extensions,
     closure |-> [closure EXCEPT !.coverage = walked.nextCoverage,
                                 !.runs = @ + 1]]

\* One patchedBindCore closure run on a runner, after the bindCore it wraps
\* has returned: the heap, the runner's extensions and the closure after it.
patchedBindCore(heap, extensions, closure) ==
    CoverageAssigned(closure,
        patchExtensions([heap |-> heap, extensions |-> <<>>,
                         nextCoverage |-> AllMissing],
                        extensions, closure))

WithClosure(st, k, ran) ==
    [heap |-> ran.heap, extensions |-> ran.extensions,
     closures |-> [st.closures EXCEPT ![k] = ran.closure]]

\* proto.bindCore called on a runner: the original bindCore, then every
\* patchedBindCore closure layered on it, innermost first.  st is the heap,
\* the runner's extensions and the closures.
RECURSIVE bindCore(_, _)
bindCore(st, k) ==
    IF k > Len(st.closures) THEN st
    ELSE bindCore(WithClosure(st, k, patchedBindCore(st.heap, st.extensions,
                                                     st.closures[k])),
                  k + 1)

\* the coverage object a PatchStatus holds, as it reads now
coverageOf(proto, status) ==
    IF status.coverageOf = 0 THEN AllMissing
    ELSE proto.bindCore[status.coverageOf].coverage

(***************************************************************************)
(* State.                                                                  *)
(***************************************************************************)
VARIABLES
    collectors,     \* the Collector objects, by identity
    recordCalls,    \* per collector: recordInvocation calls since its last reset
    fns,            \* the heap of function objects
    proto,          \* RunnerCtor.prototype: PATCHED marker, bindCore closures
    runner,         \* the current runner instance: its extensions, and those of
                    \* the runners before it
    running,        \* the call whose original is executing (at most one)
    pending,        \* calls whose original returned a promise not yet settled
    clock,          \* what now() returns
    env,            \* what importing the runner module yields
    g,              \* globalThis: the two ext-prof symbols
    ext,            \* extProfilerSpike's closure: enabled, patchState, ...
    ctl,            \* createController's closure: enabled, patchState
    files,          \* the file system: what each path holds
    saving,         \* the saveSnapshot activation in progress, and the pid
    beads,          \* beadsExtension's closure, and its handlers in progress
    last            \* the operation that produced this state, with its inputs

collectorVars == <<collectors, recordCalls>>
callVars == <<running, pending>>
hostVars == <<fns, proto, runner>>
extensionVars == <<env, g, ext, ctl>>
fileVars == <<files, saving>>
beadsVars == <<beads>>
vars == <<collectors, recordCalls, fns, proto, runner, running, pending, clock,
          env, g, ext, ctl, files, saving, beads, last>>

CollectorIds == {1, 2}

(***************************************************************************)
(* The initial state of the parts: a runner class whose prototype holds    *)
(* the original bindCore, a runner with its extensions' original           *)
(* callables, no call in flight, the extension not yet activated.          *)
(***************************************************************************)
Map(entries) == [kind |-> "Map", entries |-> entries]
Absent == [kind |-> "absent", entries |-> <<>>]
OtherObject == [kind |-> "object", entries |-> <<>>]

\* the FakeRunner of patcher.test.ts: one extension, one callable per surface
RunnerAllSurfaces ==
    <<[path |-> Some(<<"a.ts">>),
       handlers |-> Map(<<[key |-> <<"turn_start">>, value |-> <<1>>]>>),
       commands |-> Map(<<[key |-> <<"hello">>, value |-> 2]>>),
       tools |-> Map(<<[key |-> <<"tool-a">>, value |-> 3]>>)]>>

\* two extensions: two handlers of one event and nothing else; no path, an
\* empty handlers Map, one command and tools of another shape
RunnerPartial ==
    <<[path |-> Some(<<"a.ts">>),
       handlers |-> Map(<<[key |-> <<"turn_start">>, value |-> <<1, 2>>]>>),
       commands |-> Absent,
       tools |-> Absent],
      [path |-> Undefined,
       handlers |-> Map(<<>>),
       commands |-> Map(<<[key |-> <<"hello">>, value |-> 3]>>),
       tools |-> OtherObject]>>

\* one extension: a handler, a commands Map that holds nothing, no tools
RunnerEmptyCommands ==
    <<[path |-> Some(<<"a.ts">>),
       handlers |-> Map(<<[key |-> <<"turn_start">>, value |-> <<1>>]>>),
       commands |-> Map(<<>>),
       tools |-> Absent]>>

RunnerShapes == {RunnerAllSurfaces, RunnerPartial, RunnerEmptyCommands}

InitHost(heap, extensions) ==
    /\ fns = heap
    /\ proto = [patched |-> FALSE, bindCore |-> <<>>]
    /\ runner = [extensions |-> extensions, earlier |-> <<>>]

InitCalls ==
    /\ running = <<>>
    /\ pending = EmptyBag
    /\ clock = 0

\* persistence.ts: the path a test saves to, and the temporary sibling path
\* `${args.outputPath}.tmp-${process.pid}`
OutputPath == <<"snapshot.jsonl">>
tmpOfInPlace(outputPath, pid) == outputPath
tmpOf(outputPath, pid) == outputPath \o <<".tmp-", pid>>

\* what a path holds: no file, or a text as the lines written so far, each
\* ended by its newline
NoFile == [exists |-> FALSE, text |-> <<>>]
FileOf(text) == [exists |-> TRUE, text |-> text]
FilePaths == {OutputPath} \cup {tmpOf(OutputPath, pid) : pid \in 1..MaxProcesses}

\* no saveSnapshot activation in process pid
Idle(pid) == [pc |-> "idle", pid |-> pid]

InitFiles ==
    /\ files = [path \in FilePaths |-> NoFile]
    /\ saving = Idle(1)

\* beadsExtension(pi): the closure's flags as declared; priming is the
\* number of before_agent_start handlers that await `br`; reminders and
\* primes count the context reminders sent since the reminder flag was last
\* reset and the handlers that went on to prime since priming was last armed
InitBeads ==
    beads = [isBeadsProject |-> FALSE, beadsEnabled |-> FALSE, shouldPrime |-> FALSE,
             contextReminderShown |-> FALSE, priming |-> 0,
             reminders |-> 0, primes |-> 0]

NotPatched == PatchStatus(FALSE, "not patched", 0)

InitExtension(e) ==
    /\ env = e
    /\ g = [patched |-> FALSE, patchState |-> <<>>]
    /\ ext = [activated |-> FALSE, enabled |-> FALSE, patchState |-> NotPatched,
              patchAttempted |-> FALSE, warnings |-> 0]
    /\ ctl = [enabled |-> FALSE, patchState |-> NotPatched]

(***************************************************************************)
(* Direct use of the collector, as collector.test.ts uses it.              *)
(***************************************************************************)
\* the handlers samples are recorded for: blank identities, two surfaces of
\* one extension, and two handlers whose names hold the separator
HandlerInputs ==
    {<<Undefined, "event", <<"x">>>>,
     <<Some(<<>>), "event", <<"x">>>>,
     <<Some(<<" ">>), "command", <<"x">>>>,
     <<Some(<<"a">>), "event", <<"x">>>>,
     <<Some(<<"a">>), "command", <<"x">>>>,
     <<Some(<<"a">>), "event", <<"event", US, "x">>>>,
     <<Some(<<"a", US, "event">>), "event", <<"x">>>>}
MsInputs == {0, 2}

SampleInputs ==
    {[extensionPath |-> h[1], surface |-> h[2], name |-> h[3], ms |-> ms, ok |-> ok] :
        h \in HandlerInputs, ms \in MsInputs, ok \in BOOLEAN}

\* createCollector's unknownExtensionKey argument: left out, the empty string
UnknownExtensionKeyInputs == {Undefined, Some(<<>>)}

InitCollector ==
    /\ \E m \in 1..MaxHandlersArg, unknownExtensionKey \in UnknownExtensionKeyInputs :
          collectors = [c \in CollectorIds |-> createCollector(m, unknownExtensionKey)]
    /\ recordCalls = [c \in CollectorIds |-> 0]
    /\ InitHost(<<>>, <<>>)
    /\ InitCalls
    /\ InitFiles
    /\ InitBeads
    /\ InitExtension("ok")
    /\ last = [op |-> "create"]

\* recordInvocation(collector, sample)
CallRecordInvocation(c, sample) ==
    /\ recordCalls[c] < MaxRecords
    /\ collectors' = [collectors EXCEPT ![c] = recordInvocation(@, sample)]
    /\ recordCalls' = [recordCalls EXCEPT ![c] = @ + 1]
    /\ UNCHANGED <<hostVars, callVars, clock, extensionVars, fileVars, beadsVars>>
    /\ last' = [op |-> "recordInvocation", c |-> c, sample |-> sample,
                keyWasPresent |->
                    MapHas(collectors[c].handlerTotals,
                           handlerKeyOf(collectors[c], sample)),
                atCap |-> MapSize(collectors[c].handlerTotals)
                            >= collectors[c].maxHandlers]

\* resetCollector(collector)
CallResetCollector(c) ==
    /\ collectors' = [collectors EXCEPT ![c] = resetCollector(@)]
    /\ recordCalls' = [recordCalls EXCEPT ![c] = 0]
    /\ UNCHANGED <<hostVars, callVars, clock, extensionVars, fileVars, beadsVars>>
    /\ last' = [op |-> "resetCollector", c |-> c,
                atCap |-> MapSize(collectors[c].handlerTotals)
                            >= collectors[c].maxHandlers,
                dropped |-> collectors[c].droppedNewKeys]

NextCollector ==
    \/ \E sample \in SampleInputs : CallRecordInvocation(1, sample)
    \/ CallResetCollector(1)

SpecCollector == InitCollector /\ [][NextCollector]_vars

(***************************************************************************)
(* The same samples recorded into two fresh collectors, into the second    *)
(* one in another order.                                                   *)
(***************************************************************************)
\* samples of three handlers of two extensions, with two durations, ok or not
OrderSamples ==
    LET sample(extensionPath, surface, ms, ok) ==
            [extensionPath |-> Some(<<extensionPath>>), surface |-> surface,
             name |-> <<"x">>, ms |-> ms, ok |-> ok]
    IN  {sample("a", "event", 1, TRUE), sample("a", "event", 2, FALSE),
         sample("a", "command", 1, TRUE), sample("a", "command", 2, TRUE),
         sample("b", "event", 2, TRUE), sample("b", "event", 1, FALSE)}

OrdersOf(n) ==
    {order \in [1..n -> 1..n] : \A i, j \in 1..n : order[i] = order[j] => i = j}

InitOrder ==
    /\ \E m \in 1..MaxHandlersArg :
          collectors = [c \in CollectorIds |-> createCollector(m, Undefined)]
    /\ recordCalls = [c \in CollectorIds |-> 0]
    /\ InitHost(<<>>, <<>>)
    /\ InitCalls
    /\ InitFiles
    /\ InitBeads
    /\ InitExtension("ok")
    /\ \E n \in 0..MaxRecords :
          \E samples \in [1..n -> OrderSamples], order \in OrdersOf(n) :
              last = [op |-> "create", samples |-> samples, order |-> order]

\* the next recordInvocation on each of the two collectors
RecordInBothOrders ==
    /\ recordCalls[1] < Len(last.samples)
    /\ LET i == recordCalls[1] + 1
       IN  collectors' =
              [collectors EXCEPT
                 ![1] = recordInvocation(@, last.samples[i]),
                 ![2] = recordInvocation(@, last.samples[last.order[i]])]
    /\ recordCalls' = [c \in CollectorIds |-> recordCalls[c] + 1]
    /\ last' = [last EXCEPT !.op = "recordInvocation"]
    /\ UNCHANGED <<hostVars, callVars, clock, extensionVars, fileVars, beadsVars>>

NextOrder == RecordInBothOrders

SpecOrder == InitOrder /\ [][NextOrder]_vars

(***************************************************************************)
(* Calls of callables.  JavaScript runs one call at a time: while an        *)
(* original executes nothing else does, except that time passes.  A call   *)
(* ends when its original returns a value or throws, or, when the original *)
(* returned a promise, when that promise settles.                          *)
(***************************************************************************)
\* the callTimed activations of the calls in flight
RECURSIVE PendingFrames(_)
PendingFrames(calls) ==
    IF calls = {} THEN 0
    ELSE LET call == CHOOSE x \in calls : TRUE
         IN  Len(call.frames) * CopiesIn(call, pending) + PendingFrames(calls \ {call})

FramesInFlight ==
    (IF running = <<>> THEN 0 ELSE Len(running[1].frames))
       + PendingFrames(BagToSet(pending))

\* recordInvocation calls made or still to come from calls in flight
RecordsCommitted == recordCalls[1] + recordCalls[2] + FramesInFlight

Fulfilled == [kind |-> "fulfilled", payload |-> "value"]
Rejected == [kind |-> "rejected", payload |-> "E"]

\* performance.now() moves on; only the time that passes during a call is
\* ever measured
Tick ==
    /\ running # <<>> \/ pending # EmptyBag
    /\ clock + 1 \in Instants
    /\ clock' = clock + 1
    /\ UNCHANGED <<collectorVars, hostVars, callVars, extensionVars, fileVars, beadsVars>>
    /\ last' = [op |-> "tick"]

\* an injected now() that is not monotonic
ClockAdjust ==
    /\ \E t \in Instants : t < clock /\ clock' = t
    /\ UNCHANGED <<collectorVars, hostVars, callVars, extensionVars, fileVars, beadsVars>>
    /\ last' = [op |-> "tick"]

\* fn(...callArgs): every wrapper on the way in enters callTimed and reads the
\* clock; then the original starts to execute
Invoke(fn) ==
    /\ running = <<>>
    /\ BagCardinality(pending) < MaxCalls
    /\ LET frames == callTimedFrames(fns, fn, clock)
       IN  /\ RecordsCommitted + Len(frames) <= MaxCalls
           /\ running' = <<[fn |-> fn, frames |-> frames]>>
    /\ UNCHANGED <<collectorVars, hostVars, pending, clock, extensionVars, fileVars, beadsVars>>
    /\ last' = [op |-> "invoke"]

\* the finally blocks of a call's callTimed activations run and the caller
\* gets the outcome
FinishFromSharedStart(op, call, outcome) ==
    LET latest(frame) ==
            LET starts == {frame.start}
                            \cup {other.frames[i].start :
                                    other \in {x \in BagToSet(pending) :
                                                 x.frames # <<>>
                                                 /\ [x.frames[1] EXCEPT !.start = 0]
                                                      = [frame EXCEPT !.start = 0]},
                                    i \in {1}}
            IN  CHOOSE s \in starts : \A t \in starts : t <= s
        frames == [i \in 1..Len(call.frames) |->
                     [call.frames[i] EXCEPT !.start = latest(call.frames[i])]]
    IN  /\ collectors' = recordFrames(collectors, frames, clock, outcome)
        /\ recordCalls' =
              [c \in CollectorIds |->
                  recordCalls[c]
                    + Cardinality({i \in 1..Len(call.frames) :
                                      call.frames[i].collector = c})]
        /\ last' = [op |-> op, fn |-> call.fn, frames |-> call.frames,
                    original |-> outcome,
                    outcome |-> outcomeThrough(call.frames, outcome),
                    originalDelivery |-> IF op = "completes" THEN "sync" ELSE "promise",
                    delivery |->
                        wrappedCallDelivery(call.frames,
                            IF op = "completes" THEN "sync" ELSE "promise"),
                    after |-> IF last.op = "command" /\ last.subcommand = "reset"
                          THEN "reset" ELSE "other"]
Finish(op, call, outcome) ==
    /\ collectors' = recordFrames(collectors, call.frames, clock, outcome)
    /\ recordCalls' =
          [c \in CollectorIds |->
              recordCalls[c]
                + Cardinality({i \in 1..Len(call.frames) : call.frames[i].collector = c})]
    /\ last' = [op |-> op, fn |-> call.fn, frames |-> call.frames,
                original |-> outcome,
                outcome |-> outcomeThrough(call.frames, outcome),
                originalDelivery |-> IF op = "completes" THEN "sync" ELSE "promise",
                delivery |->
                    wrappedCallDelivery(call.frames,
                        IF op = "completes" THEN "sync" ELSE "promise"),
                \* whether the step before this one was `/ext-prof reset`
                after |-> IF last.op = "command" /\ last.subcommand = "reset"
                          THEN "reset" ELSE "other"]

\* the original returns a value or throws: await resumes callTimed at once
OriginalCompletes(outcome) ==
    /\ running # <<>>
    /\ Finish("completes", running[1], outcome)
    /\ running' = <<>>
    /\ UNCHANGED <<hostVars, pending, clock, extensionVars, fileVars, beadsVars>>

\* the original returns a promise that is still pending: a wrapper's callTimed
\* awaits it; without the await it would go on with the promise as the result
OriginalReturnsPromise ==
    /\ running # <<>>
    /\ running' = <<>>
    /\ IF awaitsSettlement \/ running[1].frames = <<>>
       THEN /\ pending' = pending (+) SetToBag({running[1]})
            /\ last' = [op |-> "returnsPromise"]
            /\ UNCHANGED collectorVars
       ELSE /\ Finish("returnsPromise", running[1], Fulfilled)
            /\ UNCHANGED pending
    /\ UNCHANGED <<hostVars, clock, extensionVars, fileVars, beadsVars>>

\* a pending promise of an original settles
SettleDiscardedAfterReset(call, outcome) ==
    /\ running = <<>>
    /\ BagIn(call, pending)
    /\ IF last.op = "command" /\ last.subcommand = "reset"
       THEN /\ UNCHANGED collectorVars
            /\ last' = [op |-> "settles", fn |-> call.fn, frames |-> call.frames,
                        original |-> outcome,
                        outcome |-> outcomeThrough(call.frames, outcome),
                        originalDelivery |-> "promise",
                        delivery |-> wrappedCallDelivery(call.frames, "promise"),
                        after |-> "reset"]
       ELSE Finish("settles", call, outcome)
    /\ pending' = pending (-) SetToBag({call})
    /\ UNCHANGED <<hostVars, running, clock, extensionVars, fileVars, beadsVars>>
Settle(call, outcome) ==
    /\ running = <<>>
    /\ BagIn(call, pending)
    /\ Finish("settles", call, outcome)
    /\ pending' = pending (-) SetToBag({call})
    /\ UNCHANGED <<hostVars, running, clock, extensionVars, fileVars, beadsVars>>

(***************************************************************************)
(* The host.                                                               *)
(***************************************************************************)
\* what a bindCore call leaves behind
BindCoreReturns(ran) ==
    /\ Len(ran.heap) <= MaxFns
    /\ fns' = ran.heap
    /\ runner' = [runner EXCEPT !.extensions = ran.extensions]
    /\ proto' = [proto EXCEPT !.bindCore = ran.closures]

\* runner.bindCore(...)
CallBindCore ==
    /\ running = <<>>
    /\ \A k \in 1..Len(proto.bindCore) : proto.bindCore[k].runs < MaxBindCoreCalls
    /\ BindCoreReturns(bindCore([heap |-> fns, extensions |-> runner.extensions,
                                 closures |-> proto.bindCore], 1))
    /\ UNCHANGED <<collectorVars, callVars, clock, extensionVars, fileVars, beadsVars>>
    /\ last' = [op |-> "bindCore"]

\* the callables the runner would call
RECURSIVE ListedFns(_)
ListedFns(entries) ==
    IF entries = <<>> THEN {}
    ELSE {Head(entries).value[i] : i \in 1..Len(Head(entries).value)}
            \cup ListedFns(Tail(entries))

SlotFns(extensions) ==
    UNION {ListedFns(extensions[i].handlers.entries)
             \cup {extensions[i].commands.entries[j].value :
                      j \in 1..Len(extensions[i].commands.entries)}
             \cup {extensions[i].tools.entries[j].value :
                      j \in 1..Len(extensions[i].tools.entries)} :
           i \in 1..Len(extensions)}

(***************************************************************************)
(* Direct use of the wrapper and the patcher, as wrapper.test.ts and       *)
(* patcher.test.ts use them.                                               *)
(***************************************************************************)
\* patchRunnerPrototype({ RunnerCtor, collector, shouldRecord })
CallPatchRunnerPrototype(c, shouldRecord) ==
    /\ running = <<>>
    /\ LET r == patchRunnerPrototype(proto, [collector |-> c,
                                             shouldRecord |-> shouldRecord])
       IN  /\ Len(r.proto.bindCore) <= 2
           /\ proto' = r.proto
           /\ last' = [op |-> "patchRunnerPrototype", status |-> r.status,
                       wasPatched |-> proto.patched]
    /\ UNCHANGED <<collectorVars, fns, runner, callVars, clock, extensionVars, fileVars, beadsVars>>

\* the arguments the wrap functions are called with directly
WrapInputs ==
    {[surface |-> "event", extensionPath |-> <<"slow-a.ts">>,
      name |-> <<"turn_start">>, collector |-> 1],
     [surface |-> "command", extensionPath |-> <<"b.ts">>, name |-> <<"hello">>,
      collector |-> 2],
     [surface |-> "tool", extensionPath |-> <<"b.ts">>, name |-> <<"tool-b">>,
      collector |-> 2]}

\* wrapEventHandler / wrapCommandHandler / wrapToolExecute ({..., handler})
CallWrap(w, handler) ==
    /\ running = <<>>
    /\ handler \in 1..Len(fns)
    /\ LET r == CASE w.surface = "event" ->
                       wrapEventHandler(fns,
                           [extensionPath |-> w.extensionPath, eventType |-> w.name,
                            collector |-> w.collector, handler |-> handler])
                  [] w.surface = "command" ->
                       wrapCommandHandler(fns,
                           [extensionPath |-> w.extensionPath, commandName |-> w.name,
                            collector |-> w.collector, handler |-> handler])
                  [] w.surface = "tool" ->
                       wrapToolExecute(fns,
                           [extensionPath |-> w.extensionPath, toolName |-> w.name,
                            collector |-> w.collector, handler |-> handler])
       IN  /\ fns[handler].wrapped \/ Len(fns) <= MaxWrapCalls
           /\ Len(r.heap) <= MaxFns
           /\ fns' = r.heap
           /\ last' = [op |-> "wrap", handler |-> handler, fn |-> r.fn,
                       wasWrapped |-> fns[handler].wrapped, args |-> w]
    /\ UNCHANGED <<collectorVars, proto, runner, callVars, clock, extensionVars, fileVars, beadsVars>>

\* wrapper.test.ts: a collector, an original handler, the wrap functions and
\* an injected now()
InitWrap ==
    /\ collectors =
          [c \in CollectorIds |-> createCollector(ProfilerMaxHandlers, Undefined)]
    /\ recordCalls = [c \in CollectorIds |-> 0]
    /\ InitHost(<<OriginalFn>>, <<>>)
    /\ InitCalls
    /\ InitFiles
    /\ InitBeads
    /\ InitExtension("ok")
    /\ last = [op |-> "create"]

NextWrap ==
    \/ Tick
    \/ ClockAdjust
    \/ \E fn \in 1..Len(fns) : Invoke(fn)
    \/ \E outcome \in {Fulfilled, Rejected} : OriginalCompletes(outcome)
    \/ OriginalReturnsPromise
    \/ \E call \in BagToSet(pending), outcome \in {Fulfilled, Rejected} :
          Settle(call, outcome)
    \/ \E w \in WrapInputs, handler \in 1..Len(fns) : CallWrap(w, handler)

SpecWrap == InitWrap /\ [][NextWrap]_vars

\* patcher.test.ts: a collector, a runner class, patchRunnerPrototype and the
\* runner's bindCore
InitPatch ==
    /\ \E m \in {TestMaxHandlers, ProfilerMaxHandlers} :
          collectors = [c \in CollectorIds |-> createCollector(m, Undefined)]
    /\ recordCalls = [c \in CollectorIds |-> 0]
    /\ \E extensions \in RunnerShapes :
          InitHost(<<OriginalFn, OriginalFn, OriginalFn>>, extensions)
    /\ InitCalls
    /\ InitFiles
    /\ InitBeads
    /\ InitExtension("ok")
    /\ last = [op |-> "create"]

NextPatch ==
    \/ \E fn \in SlotFns(runner.extensions) : Invoke(fn)
    \/ \E outcome \in {Fulfilled, Rejected} : OriginalCompletes(outcome)
    \/ OriginalReturnsPromise
    \/ \E call \in BagToSet(pending), outcome \in {Fulfilled, Rejected} :
          Settle(call, outcome)
    \/ CallBindCore
    \/ \E c \in CollectorIds :
          /\ proto.patched \/ c = 1
          /\ CallPatchRunnerPrototype(c, "undefined")

SpecPatch == InitPatch /\ [][NextPatch]_vars

(***************************************************************************)
(* The extension: index.ts with the controller of commands.ts, loaded into *)
(* a host that owns the runner class and a runner.                         *)
(***************************************************************************)
\* persistence.ts.  A JavaScript object is its properties in insertion
\* order, a sequence of [key, value]; assigning a property that exists keeps
\* its place (MapSet).  A value is a string, a number, a boolean, an object
\* or undefined, tagged with its type.
Str(s) == [t |-> "string", string |-> s]
Num(n) == [t |-> "number", number |-> n]
Bool(b) == [t |-> "boolean", boolean |-> b]
Obj(o) == [t |-> "object", object |-> o]
Undef == [t |-> "undefined"]

RECURSIVE Spread(_, _)
Spread(object, source) ==
    IF source = <<>> THEN object
    ELSE Spread(MapSet(object, Head(source).key, Head(source).value), Tail(source))

\* JSON.stringify(object): one line of text holding, in order, the
\* properties whose value is not undefined
JSONstringify(object) ==
    [json |-> SelectSeq(object, LAMBDA property : property.value.t # "undefined")]

\* saveSnapshot: the text written to outputPath, as its lines; every line,
\* the last one too, ends with a newline
saveSnapshot(args) ==
    [path |-> args.outputPath,
     lines |-> <<JSONstringify(Spread(<<[key |-> "type", value |-> Str("session_meta")]>>,
                                      args.sessionMeta))>>
               \o [i \in 1..Len(args.aggregates) |->
                     JSONstringify(Spread(<<[key |-> "type", value |-> Str("aggregate")]>>,
                                          args.aggregates[i]))],
     trailingNewline |-> TRUE]

\* formatter.ts formatStatus: the lines of the text, label and value
formatStatus(args) ==
    <<<<"enabled", IF args.enabled THEN "on" ELSE "off">>,
      <<"patch", args.patch.reason>>,
      <<"events", args.coverage.events>>,
      <<"commands", args.coverage.commands>>,
      <<"tools", args.coverage.tools>>>>

\* What resolving and importing the runner module yields: the module with
\* the runner class ("ok"); no runner.js found, so that resolveRunnerModuleUrl
\* throws ("notLocated"); an import that throws ("importFails"); a module
\* without ExtensionRunner ("noExtensionRunner"); an ExtensionRunner whose
\* prototype has no bindCore function ("noBindCore").
Environments == {"ok", "notLocated", "importFails", "noExtensionRunner", "noBindCore"}

\* a branch of ensurePatched that gives up: the status is cached globally
PatchFailed(G, x, p, reason) ==
    [g |-> [G EXCEPT !.patchState = <<PatchStatus(FALSE, reason, 0)>>],
     ext |-> [x EXCEPT !.patchAttempted = TRUE,
                       !.patchState = PatchStatus(FALSE, reason, 0)],
     proto |-> p,
     completion |-> "returns"]

\* ensurePatched of index.ts: globalThis, the extension's closure and the
\* runner prototype after it, and whether it returned or threw.  The
\* extension's collector is collector 1 and its shouldRecord gate reads the
\* closure's `enabled`.
ensurePatchedWithoutCatch(e, G, x, p) ==
    IF G.patchState # <<>>
    THEN [g |-> G, ext |-> [x EXCEPT !.patchState = G.patchState[1]], proto |-> p,
          completion |-> "returns"]
    ELSE IF x.patchAttempted
    THEN [g |-> G, ext |-> x, proto |-> p, completion |-> "returns"]
    ELSE IF G.patched THEN PatchFailed(G, x, p, "already patched")
    ELSE IF e \in {"notLocated", "importFails"}
    THEN [g |-> G, ext |-> [x EXCEPT !.patchAttempted = TRUE], proto |-> p,
          completion |-> "throws"]
    ELSE IF e \in {"noExtensionRunner", "noBindCore"}
    THEN PatchFailed(G, x, p, "ExtensionRunner.bindCore not found")
    ELSE LET r == patchRunnerPrototype(p, [collector |-> 1,
                                           shouldRecord |-> "enabled"])
         IN  [g |-> [patched |-> TRUE, patchState |-> <<r.status>>],
              ext |-> [x EXCEPT !.patchAttempted = TRUE, !.patchState = r.status],
              proto |-> r.proto,
              completion |-> "returns"]
ensurePatched(e, G, x, p) ==
    IF G.patchState # <<>>
    THEN [g |-> G, ext |-> [x EXCEPT !.patchState = G.patchState[1]], proto |-> p,
          completion |-> "returns"]
    ELSE IF x.patchAttempted
    THEN [g |-> G, ext |-> x, proto |-> p, completion |-> "returns"]
    ELSE IF G.patched THEN PatchFailed(G, x, p, "already patched")
    ELSE IF e = "notLocated"
    THEN PatchFailed(G, x, p,
            "runner import failed: unable to locate core/extensions/runner.js.")
    ELSE IF e = "importFails"
    THEN PatchFailed(G, x, p, "runner import failed: error")
    ELSE IF e \in {"noExtensionRunner", "noBindCore"}
    THEN PatchFailed(G, x, p, "ExtensionRunner.bindCore not found")
    ELSE LET r == patchRunnerPrototype(p, [collector |-> 1,
                                           shouldRecord |-> "enabled"])
         IN  [g |-> [patched |-> TRUE, patchState |-> <<r.status>>],
              ext |-> [x EXCEPT !.patchAttempted = TRUE, !.patchState = r.status],
              proto |-> r.proto,
              completion |-> "returns"]

\* extProfilerSpike(pi): patches, then creates the controller and registers
\* the command and the session_start handler
Activate ==
    /\ ~ext.activated
    /\ running = <<>>
    /\ LET r == ensurePatched(env, g, ext, proto)
       IN  /\ g' = r.g
           /\ ext' = [r.ext EXCEPT !.activated = (r.completion = "returns")]
           /\ proto' = r.proto
           /\ last' = [op |-> "activate", completion |-> r.completion]
    /\ UNCHANGED <<collectorVars, fns, runner, callVars, clock, env, ctl, fileVars, beadsVars>>

\* The registered command handler: controller.handle(args), then the closure
\* copies the controller's enabled flag and patch state, then the response is
\* shown.  c, G, p and cols are the controller, globalThis, the prototype and
\* the collectors after controller.handle; x the closure after it; written
\* the files it wrote.
CommandHandler(subcommand, c, x, G, p, cols, response, written) ==
    /\ ext.activated
    /\ running = <<>>
    /\ ctl' = c
    /\ ext' = [x EXCEPT !.enabled = c.enabled, !.patchState = c.patchState]
    /\ g' = G
    /\ proto' = p
    /\ collectors' = cols
    /\ UNCHANGED <<fns, runner, callVars, clock, env, fileVars, beadsVars>>
    /\ last' = [op |-> "command", subcommand |-> subcommand, response |-> response,
                written |-> written]

StatusOf(c, p) ==
    formatStatus([enabled |-> c.enabled, patch |-> c.patchState,
                  coverage |-> coverageOf(p, c.patchState)])

\* /ext-prof status
CmdStatus ==
    /\ CommandHandler("status", ctl, ext, g, proto, collectors, StatusOf(ctl, proto),
                      <<>>)
    /\ UNCHANGED recordCalls

\* /ext-prof on
CmdOnStaysDisabled ==
    LET r == ensurePatched(env, g, ext, proto)
        c == [enabled |-> FALSE, patchState |-> r.ext.patchState]
    IN  /\ CommandHandler("on", c, r.ext, r.g, r.proto, collectors,
                          StatusOf(c, r.proto), <<>>)
        /\ UNCHANGED recordCalls
CmdOn ==
    LET r == ensurePatched(env, g, ext, proto)
        c == [enabled |-> TRUE, patchState |-> r.ext.patchState]
    IN  /\ CommandHandler("on", c, r.ext, r.g, r.proto, collectors,
                          StatusOf(c, r.proto), <<>>)
        /\ UNCHANGED recordCalls

\* /ext-prof off
CmdOff ==
    LET c == [ctl EXCEPT !.enabled = FALSE]
    IN  /\ CommandHandler("off", c, ext, g, proto, collectors, StatusOf(c, proto),
                          <<>>)
        /\ UNCHANGED recordCalls

\* /ext-prof reset
CmdReset ==
    /\ CommandHandler("reset", ctl, ext, g, proto,
                      [collectors EXCEPT ![1] = resetCollector(@)],
                      "reset: collector state cleared", <<>>)
    /\ recordCalls' = [recordCalls EXCEPT ![1] = 0]

\* the object literals of index.ts's save
AggregateOf(row) ==
    <<[key |-> "extensionPath", value |-> Str(row.extensionPath)],
      [key |-> "surface", value |-> Str(row.surface)],
      [key |-> "name", value |-> Str(row.name)],
      [key |-> "calls", value |-> Num(row.calls)],
      [key |-> "totalMs", value |-> Num(row.totalMs)],
      [key |-> "maxMs", value |-> Num(row.maxMs)],
      [key |-> "errorCount", value |-> Num(row.errorCount)]>>

SessionMetaOf(x, p) ==
    <<[key |-> "schemaVersion", value |-> Num(1)],
      [key |-> "project", value |-> Str("<project>")],
      [key |-> "patch", value |-> Str(x.patchState.reason)],
      [key |-> "patched", value |-> Bool(x.patchState.patched)],
      [key |-> "coverage", value |-> Obj(coverageOf(p, x.patchState))],
      [key |-> "savedAt", value |-> Str("<now>")],
      [key |-> "overheadGoalPct", value |-> Num(1)],
      [key |-> "enabled", value |-> Bool(x.enabled)]>>

\* path.join(homeDir, ".pi", "profiles", projectName, `${stamp}.jsonl`)
defaultSavePath == <<"<home>", ".pi", "profiles", "<project>", "<stamp>.jsonl">>

\* the paths `save` is given
SavePaths == {Undefined, Some(<<"out.jsonl">>)}

\* /ext-prof save [path]
CmdSave(maybePath) ==
    LET outputPath == IF maybePath.defined THEN maybePath.value ELSE defaultSavePath
        rows == summarizeByHandler(collectors[1])
    IN  /\ CommandHandler("save", ctl, ext, g, proto, collectors,
                          <<"saved: ", outputPath>>,
                          <<saveSnapshot(
                              [outputPath |-> outputPath,
                               sessionMeta |-> SessionMetaOf(ext, proto),
                               aggregates |-> [i \in 1..Len(rows) |->
                                                  AggregateOf(rows[i])]])>>)
        /\ UNCHANGED recordCalls

\* /ext-prof <anything else>
CmdUnknown ==
    /\ CommandHandler("bogus", ctl, ext, g, proto, collectors,
                      <<"unknown subcommand: ", "bogus">>, <<>>)
    /\ UNCHANGED recordCalls

\* pi.on("session_start", ...): warns when the profiler is inactive
\* ext.warnings counts the warnings surfaced so far
SessionStart ==
    /\ ext.activated
    /\ running = <<>>
    /\ ext.warnings < MaxWarnings
    /\ LET warns == /\ ~ext.patchState.patched
                    /\ ext.patchState.reason # "already patched"
       IN  /\ last' = [op |-> "session_start",
                       warning |->
                           IF warns
                           THEN <<<<"ext-prof-spike inactive: ",
                                    ext.patchState.reason>>>>
                           ELSE <<>>]
           /\ ext' = [ext EXCEPT !.warnings = IF warns THEN @ + 1 ELSE @]
    /\ UNCHANGED <<collectorVars, hostVars, callVars, clock, env, g, ctl, fileVars, beadsVars>>

InitSpec ==
    /\ collectors =
          [c \in CollectorIds |-> createCollector(ProfilerMaxHandlers, Undefined)]
    /\ recordCalls = [c \in CollectorIds |-> 0]
    /\ InitHost(<<OriginalFn, OriginalFn, OriginalFn>>, RunnerAllSurfaces)
    /\ InitCalls
    /\ InitFiles
    /\ InitBeads
    /\ \E e \in Environments : InitExtension(e)
    /\ last = [op |-> "create"]

Next ==
    \/ Activate
    \/ CmdStatus
    \/ CmdOn
    \/ CmdOff
    \/ CmdReset
    \/ \E maybePath \in SavePaths : CmdSave(maybePath)
    \/ CmdUnknown
    \/ SessionStart
    \/ CallBindCore
    \/ \E fn \in SlotFns(runner.extensions) :
          \* the host awaits a call before it makes the next one
          /\ pending = EmptyBag
          /\ Invoke(fn)
    \/ \E outcome \in {Fulfilled, Rejected} : OriginalCompletes(outcome)
    \/ OriginalReturnsPromise
    \/ \E call \in BagToSet(pending), outcome \in {Fulfilled, Rejected} :
          Settle(call, outcome)

Spec == InitSpec /\ [][Next]_vars

(***************************************************************************)
(* Direct use of saveSnapshot, as the persistence test uses it.            *)
(***************************************************************************)
\* the sessionMeta of the test; one with a further property, one whose
\* savedAt is undefined, one that has a property named type
TestSessionMeta ==
    <<[key |-> "schemaVersion", value |-> Num(1)],
      [key |-> "project", value |-> Str("dotagents")],
      [key |-> "patch", value |-> Str("patched")]>>
SessionMetaInputs ==
    {TestSessionMeta,
     Append(TestSessionMeta, [key |-> "overheadGoalPct", value |-> Num(1)]),
     Append(TestSessionMeta, [key |-> "savedAt", value |-> Undef]),
     Append(TestSessionMeta, [key |-> "type", value |-> Str("aggregate")])}

\* the row of the test, a row of another shape, and a row that has a
\* property named type
RowInputs ==
    {<<[key |-> "extensionPath", value |-> Str("a.ts")],
       [key |-> "surface", value |-> Str("event")],
       [key |-> "calls", value |-> Num(2)]>>,
     <<[key |-> "calls", value |-> Num(0)]>>,
     <<[key |-> "type", value |-> Str("session_meta")],
       [key |-> "calls", value |-> Num(1)]>>}

AggregatesInputs == UNION {[1..n -> RowInputs] : n \in 0..MaxRows}

InitSave ==
    /\ collectors =
          [c \in CollectorIds |-> createCollector(ProfilerMaxHandlers, Undefined)]
    /\ recordCalls = [c \in CollectorIds |-> 0]
    /\ InitHost(<<>>, <<>>)
    /\ InitCalls
    /\ InitFiles
    /\ InitBeads
    /\ InitExtension("ok")
    /\ last = [op |-> "create"]

\* saveSnapshot({ outputPath, sessionMeta, aggregates })
CallSaveSnapshot(sessionMeta, aggregates) ==
    /\ last' = [op |-> "saveSnapshot",
                sessionMeta |-> sessionMeta,
                aggregates |-> aggregates,
                written |-> saveSnapshot([outputPath |-> <<"snapshot.jsonl">>,
                                          sessionMeta |-> sessionMeta,
                                          aggregates |-> aggregates])]
    /\ UNCHANGED <<collectorVars, hostVars, callVars, clock, extensionVars, fileVars, beadsVars>>

NextSave ==
    \E sessionMeta \in SessionMetaInputs, aggregates \in AggregatesInputs :
        CallSaveSnapshot(sessionMeta, aggregates)

SpecSave == InitSave /\ [][NextSave]_vars

(***************************************************************************)
(* saveSnapshot step by step: each await is a step of its own, the write   *)
(* of the temporary file is an open that truncates followed by one write   *)
(* per line, any awaited operation may reject, and the process may be      *)
(* interrupted between any two steps.  One call runs at a time.            *)
(***************************************************************************)
\* fs rename(from, to)
rename(fs, from, to) ==
    IF from = to THEN fs
    ELSE [fs EXCEPT ![to] = fs[from], ![from] = NoFile]

\* saveSnapshot is called (persistence.ts line 4); `before` remembers what
\* the output path held
BeginSaveSnapshot(sessionMeta, aggregates) ==
    /\ saving.pc = "idle"
    /\ saving' = [pc |-> "mkdir", pid |-> saving.pid,
                  outputPath |-> OutputPath,
                  sessionMeta |-> sessionMeta, aggregates |-> aggregates,
                  before |-> files[OutputPath]]
    /\ last' = [op |-> "saveSnapshot begins"]
    /\ UNCHANGED <<collectorVars, hostVars, callVars, clock, extensionVars, files, beadsVars>>

\* line 9 resolves; lines 11-15 compute tmp and lines
Mkdir ==
    /\ saving.pc = "mkdir"
    /\ saving' = [saving EXCEPT !.pc = "open"] @@
                 [tmp |-> tmpOf(saving.outputPath, saving.pid),
                  lines |-> saveSnapshot([outputPath |-> saving.outputPath,
                                          sessionMeta |-> saving.sessionMeta,
                                          aggregates |-> saving.aggregates]).lines]
    /\ last' = [op |-> "mkdir"]
    /\ UNCHANGED <<collectorVars, hostVars, callVars, clock, extensionVars, files, beadsVars>>

\* line 17, writeFile opens tmp with flag "w": the file exists and is empty
OpenTmp ==
    /\ saving.pc = "open"
    /\ files' = [files EXCEPT ![saving.tmp] = FileOf(<<>>)]
    /\ saving' = [saving EXCEPT !.pc = "write"]
    /\ last' = [op |-> "open"]
    /\ UNCHANGED <<collectorVars, hostVars, callVars, clock, extensionVars, beadsVars>>

\* line 17, writeFile writes the next part of the text; after the last part
\* it closes the file and resolves
WriteTmp ==
    /\ saving.pc = "write"
    /\ LET written == Len(files[saving.tmp].text)
       IN  IF written < Len(saving.lines)
           THEN /\ files' = [files EXCEPT ![saving.tmp] =
                                FileOf(Append(@.text, saving.lines[written + 1]))]
                /\ UNCHANGED saving
                /\ last' = [op |-> "write"]
           ELSE /\ saving' = [saving EXCEPT !.pc = "rename"]
                /\ UNCHANGED files
                /\ last' = [op |-> "close"]
    /\ UNCHANGED <<collectorVars, hostVars, callVars, clock, extensionVars, beadsVars>>

\* line 18 resolves, and saveSnapshot with it
Rename ==
    /\ saving.pc = "rename"
    /\ files' = rename(files, saving.tmp, saving.outputPath)
    /\ saving' = Idle(saving.pid)
    /\ last' = [op |-> "rename", saving |-> saving]
    /\ UNCHANGED <<collectorVars, hostVars, callVars, clock, extensionVars, beadsVars>>

\* the awaited operation rejects (no permission, disk full): saveSnapshot
\* rejects and nothing is cleaned up
Reject ==
    /\ saving.pc \in {"mkdir", "open", "write", "rename"}
    /\ saving' = Idle(saving.pid)
    /\ last' = [op |-> "rejects", saving |-> saving]
    /\ UNCHANGED <<collectorVars, hostVars, callVars, clock, extensionVars, files, beadsVars>>

\* the process is interrupted; the next process has another pid
Interrupt ==
    /\ saving.pc # "idle"
    /\ saving.pid < MaxProcesses
    /\ saving' = Idle(saving.pid + 1)
    /\ last' = [op |-> "interrupted", saving |-> saving]
    /\ UNCHANGED <<collectorVars, hostVars, callVars, clock, extensionVars, files, beadsVars>>

\* the snapshots saved: the one of the test, with and without its row, with
\* a second row, and with another sessionMeta
PersistInputs ==
    LET meta == TestSessionMeta
        other == Append(TestSessionMeta,
                        [key |-> "overheadGoalPct", value |-> Num(1)])
        row == <<[key |-> "extensionPath", value |-> Str("a.ts")],
                 [key |-> "surface", value |-> Str("event")],
                 [key |-> "calls", value |-> Num(2)]>>
        row2 == <<[key |-> "calls", value |-> Num(0)]>>
    IN  {<<meta, <<>>>>, <<meta, <<row>>>>, <<meta, <<row, row2>>>>,
         <<other, <<row>>>>}

NextPersist ==
    \/ \E input \in PersistInputs : BeginSaveSnapshot(input[1], input[2])
    \/ Mkdir
    \/ OpenTmp
    \/ WriteTmp
    \/ Rename
    \/ Reject
    \/ Interrupt

SpecPersist == InitSave /\ [][NextPersist]_vars

(***************************************************************************)
(* overhead.ts.  A number is a fraction in lowest terms with a positive    *)
(* denominator, or what a division by zero gives.                          *)
(***************************************************************************)
Abs(n) == IF n < 0 THEN -n ELSE n

RECURSIVE Gcd(_, _)
Gcd(a, b) == IF b = 0 THEN a ELSE Gcd(b, a % b)

Fraction(n, d) ==
    LET k == Gcd(Abs(n), Abs(d))
    IN  [kind |-> "finite",
         num |-> (IF d < 0 THEN -n ELSE n) \div k,
         den |-> Abs(d) \div k]
NotFinite(kind) == [kind |-> kind, num |-> 0, den |-> 0]

\* a / b
Divide(a, b) ==
    IF b # 0 THEN Fraction(a, b)
    ELSE IF a > 0 THEN NotFinite("Infinity")
    ELSE IF a < 0 THEN NotFinite("-Infinity")
    ELSE NotFinite("NaN")

\* x * k, for k > 0
Times(x, k) == IF x.kind = "finite" THEN Fraction(x.num * k, x.den) ELSE x

computeOverheadPctDividesByZero(args) ==
    IF args.baselineMs < 0
    THEN Fraction(0, 1)
    ELSE Times(Divide(args.profiledMs - args.baselineMs, args.baselineMs), 100)

computeOverheadPct(args) ==
    IF args.baselineMs <= 0
    THEN Fraction(0, 1)
    ELSE Times(Divide(args.profiledMs - args.baselineMs, args.baselineMs), 100)

\* overhead.test.ts: the durations of the test, and small ones of either sign
OverheadMsInputs == {100, 101, 198, 200} \cup (-MaxOverheadMs..MaxOverheadMs)

InitOverhead == InitSave

\* computeOverheadPct({ baselineMs, profiledMs })
CallComputeOverheadPct(baselineMs, profiledMs) ==
    /\ last' = [op |-> "computeOverheadPct",
                baselineMs |-> baselineMs, profiledMs |-> profiledMs,
                result |-> computeOverheadPct([baselineMs |-> baselineMs,
                                               profiledMs |-> profiledMs])]
    /\ UNCHANGED <<collectorVars, hostVars, callVars, clock, extensionVars, fileVars, beadsVars>>

NextOverhead ==
    \E baselineMs \in OverheadMsInputs, profiledMs \in OverheadMsInputs :
        CallComputeOverheadPct(baselineMs, profiledMs)

SpecOverhead == InitOverhead /\ [][NextOverhead]_vars

(***************************************************************************)
(* The beads extension: lib.ts and the handlers beadsExtension registers.  *)
(***************************************************************************)
\* turn_end: thresholdPercent: 85
ContextReminderThresholdPercent == 85

\* parseBeadsSessionMode
parseBeadsSessionMode(args) ==
    LET isBeadsProject == args.brInfoExitCode = 0
    IN  [isBeadsProject |-> isBeadsProject, beadsEnabled |-> isBeadsProject]

\* A command line is a sequence of tokens: " " is a run of whitespace, "-",
\* ";" and "'" are punctuation, any other token is a run of word characters;
\* two adjacent word tokens read as one longer word.
WhitespaceTokens == {" "}
PunctuationTokens == {"-", ";", "'"}
IsWordToken(token) == token \notin WhitespaceTokens \cup PunctuationTokens

\* \s* : the command after its leading whitespace
RECURSIVE SkipWhitespace(_)
SkipWhitespace(command) ==
    IF command # <<>> /\ Head(command) \in WhitespaceTokens
    THEN SkipWhitespace(Tail(command))
    ELSE command

\* isBrCloseCommand: /^\s*br\s+close\b/.test(command)
isBrCloseCommand(command) ==
    LET rest == SkipWhitespace(command)
    IN  /\ Len(rest) >= 3
        /\ rest[1] = "br"
        \* \s+ : rest[2] is whitespace, and the whitespace after it is skipped
        /\ rest[2] \in WhitespaceTokens
        /\ LET after == SkipWhitespace(Tail(rest))
           IN  /\ after # <<>>
               /\ after[1] = "close"
               \* \b : the word ends here
               /\ Len(after) >= 2 => ~IsWordToken(after[2])

\* shouldShowContextReminder; beadsEnabled is an optional argument and
\* usagePercent is a number or null
shouldShowContextReminderAgain(args) ==
    IF args.beadsEnabled = Some(FALSE) THEN FALSE
    ELSE IF args.usagePercent.null THEN FALSE
    ELSE args.usagePercent.number >= args.thresholdPercent
shouldShowContextReminder(args) ==
    IF args.beadsEnabled = Some(FALSE) THEN FALSE
    ELSE IF args.alreadyShown THEN FALSE
    ELSE IF args.usagePercent.null THEN FALSE
    ELSE args.usagePercent.number >= args.thresholdPercent

\* /beads-reset-reminder
BeadsResetReminder ==
    /\ beads' = [beads EXCEPT !.contextReminderShown = FALSE, !.reminders = 0]
    /\ last' = [op |-> "beads-reset-reminder"]
    /\ UNCHANGED <<collectorVars, hostVars, callVars, clock, extensionVars, fileVars>>

\* the ctrl+b shortcut: toggles beads mode
CtrlB ==
    /\ beads' = [beads EXCEPT !.beadsEnabled = ~beads.beadsEnabled,
                              !.shouldPrime = ~beads.beadsEnabled,
                              !.contextReminderShown = FALSE,
                              !.reminders = 0,
                              !.primes = IF ~beads.beadsEnabled THEN 0 ELSE @]
    /\ last' = [op |-> "ctrl+b", beadsEnabled |-> ~beads.beadsEnabled]
    /\ UNCHANGED <<collectorVars, hostVars, callVars, clock, extensionVars, fileVars>>

\* what `br info --json` exits with
BrInfoExitCodes == {0, 1}

\* session_start, from the point where `br info` has answered
BeadsSessionStart(brInfoExitCode) ==
    /\ LET sessionMode == parseBeadsSessionMode([brInfoExitCode |-> brInfoExitCode])
       IN  beads' = [beads EXCEPT !.isBeadsProject = sessionMode.isBeadsProject,
                                  !.beadsEnabled = sessionMode.beadsEnabled,
                                  !.shouldPrime = sessionMode.beadsEnabled,
                                  !.primes = IF brInfoExitCode = 0 THEN 0 ELSE @]
    /\ last' = [op |-> "session_start", brInfoExitCode |-> brInfoExitCode]
    /\ UNCHANGED <<collectorVars, hostVars, callVars, clock, extensionVars, fileVars>>

\* session_before_compact
SessionBeforeCompact ==
    /\ beads' = IF beads.beadsEnabled
                THEN [beads EXCEPT !.shouldPrime = TRUE, !.primes = 0]
                ELSE beads
    /\ last' = [op |-> "session_before_compact"]
    /\ UNCHANGED <<collectorVars, hostVars, callVars, clock, extensionVars, fileVars>>

\* before_agent_start up to its first await: it returns at once, or clears
\* shouldPrime and waits for `br list`
clearsShouldPrime(b) == [b EXCEPT !.shouldPrime = FALSE]

BeforeAgentStart ==
    /\ beads.priming < MaxPriming
    /\ beads.primes < MaxPriming
    /\ IF ~beads.beadsEnabled \/ ~beads.shouldPrime
       THEN /\ beads' = beads
            /\ last' = [op |-> "before_agent_start", returns |-> "undefined"]
       ELSE /\ beads' = [clearsShouldPrime(beads) EXCEPT !.priming = @ + 1,
                                                         !.primes = @ + 1]
            /\ last' = [op |-> "before_agent_start", returns |-> "awaits br"]
    /\ UNCHANGED <<collectorVars, hostVars, callVars, clock, extensionVars, fileVars>>

\* before_agent_start after `br` has answered: runBr never rejects, and the
\* handler returns the message
BeforeAgentStartReturns ==
    /\ beads.priming > 0
    /\ beads' = [beads EXCEPT !.priming = @ - 1]
    /\ last' = [op |-> "before_agent_start returns",
                message |-> [customType |-> "beads-prime", display |-> FALSE]]
    /\ UNCHANGED <<collectorVars, hostVars, callVars, clock, extensionVars, fileVars>>

\* the tool calls: the tool, input.command (a string or not), and what
\* `git status --porcelain` would answer: its exit code and whether its
\* output names changes
ToolNames == {"bash", "read"}
CommandInputs ==
    {Undefined,
     Some(<<"br", " ", "close", " ", "abc">>),
     Some(<<" ", "br", " ", "close">>),
     Some(<<"echo", " ", "br", " ", "close">>),
     Some(<<"bash", " ", "-", "lc", " ", "'", "br", " ", "close", " ", "abc", "'">>),
     Some(<<"br", " ", "close", "d">>),
     Some(<<"br", " ", "close", "-", "all">>),
     Some(<<"br", " ", "list">>)}
GitExitCodes == {0, 128}

\* tool_call: the handler's result; it writes no state
ToolCall(toolName, inputCommand, gitExitCode, dirty) ==
    /\ LET command == IF inputCommand.defined THEN inputCommand.value ELSE <<>>
           block == /\ beads.beadsEnabled
                    /\ toolName = "bash"
                    /\ isBrCloseCommand(command)
                    /\ gitExitCode = 0
                    \* status.stdout.trim(): git lists the changes, if any
                    /\ dirty
       IN  last' = [op |-> "tool_call", toolName |-> toolName,
                    command |-> inputCommand, gitExitCode |-> gitExitCode,
                    dirty |-> dirty, block |-> block]
    /\ UNCHANGED <<collectorVars, hostVars, callVars, clock, extensionVars, fileVars,
                   beadsVars>>

\* ctx.getContextUsage(): undefined, or a usage whose percent is null or a
\* number
NullPercent == [null |-> TRUE, number |-> 0]
Percent(n) == [null |-> FALSE, number |-> n]
ContextUsageInputs ==
    {[defined |-> FALSE, percent |-> NullPercent],
     [defined |-> TRUE, percent |-> NullPercent]}
    \cup {[defined |-> TRUE, percent |-> Percent(n)] : n \in {84, 85, 92}}

\* turn_end
TurnEnd(usage) ==
    /\ beads.reminders < MaxReminders
    /\ LET shows == /\ beads.beadsEnabled
                    /\ usage.defined
                    /\ shouldShowContextReminder(
                          [usagePercent |-> usage.percent,
                           thresholdPercent |-> ContextReminderThresholdPercent,
                           alreadyShown |-> beads.contextReminderShown,
                           beadsEnabled |-> Undefined])
       IN  /\ beads' = IF shows
                       THEN [beads EXCEPT !.contextReminderShown = TRUE,
                                          !.reminders = @ + 1]
                       ELSE beads
           /\ last' = [op |-> "turn_end", usage |-> usage,
                       sent |-> IF shows
                                THEN <<[customType |-> "beads-context-warning",
                                        display |-> FALSE]>>
                                ELSE <<>>]
    /\ UNCHANGED <<collectorVars, hostVars, callVars, clock, extensionVars, fileVars>>

InitBeadsSpec ==
    /\ collectors =
          [c \in CollectorIds |-> createCollector(ProfilerMaxHandlers, Undefined)]
    /\ recordCalls = [c \in CollectorIds |-> 0]
    /\ InitHost(<<>>, <<>>)
    /\ InitCalls
    /\ InitFiles
    /\ InitBeads
    /\ InitExtension("ok")
    /\ last = [op |-> "create"]

NextBeads ==
    \/ BeadsResetReminder
    \/ CtrlB
    \/ \E brInfoExitCode \in BrInfoExitCodes : BeadsSessionStart(brInfoExitCode)
    \/ SessionBeforeCompact
    \/ BeforeAgentStart
    \/ BeforeAgentStartReturns
    \/ \E toolName \in ToolNames, inputCommand \in CommandInputs,
          gitExitCode \in GitExitCodes, dirty \in BOOLEAN :
          ToolCall(toolName, inputCommand, gitExitCode, dirty)
    \/ \E usage \in ContextUsageInputs : TurnEnd(usage)

SpecBeads == InitBeadsSpec /\ [][NextBeads]_vars

(***************************************************************************)
(* Repeated activations in one process: the host loads the extension       *)
(* again, which runs extProfilerSpike again with fresh closure variables   *)
(* and a fresh controller; globalThis and the runner prototype stay.  The  *)
(* command handler that answers is the one registered last.                *)
(***************************************************************************)
Reactivate ==
    /\ ext.activated
    /\ running = <<>>
    /\ LET fresh == [ext EXCEPT !.enabled = FALSE, !.patchState = NotPatched,
                                !.patchAttempted = FALSE]
           r == ensurePatched(env, g, fresh, proto)
       IN  /\ g' = r.g
           /\ ext' = [r.ext EXCEPT !.activated = (r.completion = "returns")]
           /\ proto' = r.proto
           /\ ctl' = [enabled |-> FALSE, patchState |-> NotPatched]
           /\ last' = [op |-> "activate again", completion |-> r.completion]
    /\ UNCHANGED <<collectorVars, fns, runner, callVars, clock, env, fileVars, beadsVars>>

NextReload ==
    \/ Activate
    \/ Reactivate
    \/ CmdStatus
    \/ CmdOn
    \/ CmdOff
    \/ CallBindCore

SpecReload == InitSpec /\ [][NextReload]_vars

(***************************************************************************)
(* Several runners in one process: the host constructs another             *)
(* ExtensionRunner over the extensions' original callables; the patched    *)
(* prototype is shared, and runner.earlier keeps the extensions of the     *)
(* runners before it.                                                      *)
(***************************************************************************)
NewRunner(extensions) ==
    /\ running = <<>>
    /\ pending = EmptyBag
    /\ Len(runner.earlier) + 1 < MaxRunners
    /\ runner' = [extensions |-> extensions,
                  earlier |-> Append(runner.earlier, runner.extensions)]
    /\ last' = [op |-> "new runner"]
    /\ UNCHANGED <<collectorVars, fns, proto, callVars, clock, extensionVars, fileVars,
                   beadsVars>>

NextRunners ==
    \/ CallPatchRunnerPrototype(1, "undefined")
    \/ CallBindCore
    \/ \E extensions \in RunnerShapes : NewRunner(extensions)

SpecRunners == InitPatch /\ [][NextRunners]_vars

(***************************************************************************)
(* The extension with time passing during calls: commands arrive while a   *)
(* call of an instrumented callable is in flight.                          *)
(***************************************************************************)
NextInFlight ==
    \/ Activate
    \/ CmdOn
    \/ CmdOff
    \/ CmdReset
    \/ CallBindCore
    \/ Tick
    \/ \E fn \in SlotFns(runner.extensions) :
          /\ pending = EmptyBag
          /\ Invoke(fn)
    \/ \E outcome \in {Fulfilled, Rejected} : OriginalCompletes(outcome)
    \/ OriginalReturnsPromise
    \/ \E call \in BagToSet(pending), outcome \in {Fulfilled, Rejected} :
          Settle(call, outcome)

SpecInFlight == InitSpec /\ [][NextInFlight]_vars

(***************************************************************************)
(* Claims.                                                                 *)
(***************************************************************************)
RECURSIVE SumSeq(_)
SumSeq(q) == IF q = <<>> THEN 0 ELSE Head(q) + SumSeq(Tail(q))

\* the handler rows that carry extensionPath e, as the numbers of one field
CallsOfExtension(col, e) ==
    [i \in 1..Len(col.handlerTotals) |->
        IF col.handlerTotals[i].value.extensionPath = e
        THEN col.handlerTotals[i].value.calls ELSE 0]
TotalMsOfExtension(col, e) ==
    [i \in 1..Len(col.handlerTotals) |->
        IF col.handlerTotals[i].value.extensionPath = e
        THEN col.handlerTotals[i].value.totalMs ELSE 0]
ErrorCountOfExtension(col, e) ==
    [i \in 1..Len(col.handlerTotals) |->
        IF col.handlerTotals[i].value.extensionPath = e
        THEN col.handlerTotals[i].value.errorCount ELSE 0]

ExtensionTotalsConsistent(col) ==
    /\ \A i \in 1..Len(col.extensionTotals) :
          LET e == col.extensionTotals[i].key
              row == col.extensionTotals[i].value
          IN  /\ row.calls = SumSeq(CallsOfExtension(col, e))
              /\ row.totalMs = SumSeq(TotalMsOfExtension(col, e))
              /\ row.errorCount = SumSeq(ErrorCountOfExtension(col, e))
              /\ \E j \in 1..Len(col.handlerTotals) :
                    col.handlerTotals[j].value.extensionPath = e
    /\ \A j \in 1..Len(col.handlerTotals) :
          Cardinality({i \in 1..Len(col.extensionTotals) :
                         col.extensionTotals[i].key
                            = col.handlerTotals[j].value.extensionPath}) = 1

\* C1: after any sequence of recordInvocation and resetCollector calls, every
\* extension aggregate's calls, totalMs and errorCount are the sums over the
\* handler rows carrying that extensionPath, every handler row's extensionPath
\* has exactly one extension aggregate and every extension aggregate has at
\* least one handler row.
C1_ExtensionTotalsAreHandlerSums ==
    \A c \in CollectorIds : ExtensionTotalsConsistent(collectors[c])

\* C2: the number of distinct handler keys held never exceeds maxHandlers.
C2_HandlerKeysWithinCap ==
    \A c \in CollectorIds :
        /\ MapSize(collectors[c].handlerTotals) <= collectors[c].maxHandlers
        /\ Cardinality(MapKeys(collectors[c].handlerTotals))
              = MapSize(collectors[c].handlerTotals)

\* C2 witness: a collector that is full and has had to drop a sample.
C2_Witness ==
    /\ MapSize(collectors[1].handlerTotals) = collectors[1].maxHandlers
    /\ collectors[1].maxHandlers = MaxHandlersArg
    /\ collectors[1].droppedNewKeys > 0

\* C3: a recordInvocation for a key that is not present, made when handlerTotals
\* already holds maxHandlers keys, adds exactly 1 to droppedNewKeys and leaves
\* extensionTotals and handlerTotals as they were.
C3_DropLeavesAggregates ==
    [][\A c \in CollectorIds :
          (/\ last'.op = "recordInvocation"
           /\ last'.c = c
           /\ ~last'.keyWasPresent
           /\ MapSize(collectors[c].handlerTotals) >= collectors[c].maxHandlers)
          => /\ collectors'[c].droppedNewKeys = collectors[c].droppedNewKeys + 1
             /\ collectors'[c].extensionTotals = collectors[c].extensionTotals
             /\ collectors'[c].handlerTotals = collectors[c].handlerTotals]_vars

\* C3 witness: a sample was dropped whose extension already has an aggregate.
C3_Witness ==
    /\ last.op = "recordInvocation"
    /\ last.atCap
    /\ ~last.keyWasPresent
    /\ collectors[last.c].droppedNewKeys = 2
    /\ MapHas(collectors[last.c].extensionTotals,
              extensionPathOf(collectors[last.c], last.sample))

FoldInto(row, sample) ==
    [row EXCEPT !.calls = @ + 1,
                !.totalMs = @ + sample.ms,
                !.maxMs = IF sample.ms > @ THEN sample.ms ELSE @,
                !.errorCount = @ + (IF sample.ok THEN 0 ELSE 1)]

\* C4: at the cap, a recordInvocation for a key that is present is folded into
\* its handler aggregate and its extension aggregate and leaves droppedNewKeys
\* as it was.
C4_PresentKeyStillRecordedAtCap ==
    [][\A c \in CollectorIds :
          (/\ last'.op = "recordInvocation"
           /\ last'.c = c
           /\ last'.keyWasPresent
           /\ MapSize(collectors[c].handlerTotals) >= collectors[c].maxHandlers)
          => LET col == collectors[c]
                 e == extensionPathOf(col, last'.sample)
                 k == handlerKeyOf(col, last'.sample)
             IN  /\ collectors'[c].droppedNewKeys = col.droppedNewKeys
                 /\ MapKeys(collectors'[c].handlerTotals) = MapKeys(col.handlerTotals)
                 /\ MapGet(collectors'[c].handlerTotals, k)
                       = FoldInto(MapGet(col.handlerTotals, k), last'.sample)
                 /\ MapHas(collectors'[c].extensionTotals, e)
                 /\ MapGet(collectors'[c].extensionTotals, e)
                       = FoldInto(IF MapHas(col.extensionTotals, e)
                                  THEN MapGet(col.extensionTotals, e)
                                  ELSE ZeroAggregate, last'.sample)
                 /\ \A k2 \in MapKeys(col.handlerTotals) \ {k} :
                       MapGet(collectors'[c].handlerTotals, k2)
                          = MapGet(col.handlerTotals, k2)]_vars

\* C4 witness: a full collector that has dropped a sample records a failed
\* sample for a key it holds.
C4_Witness ==
    /\ last.op = "recordInvocation"
    /\ last.atCap
    /\ last.keyWasPresent
    /\ ~last.sample.ok
    /\ collectors[last.c].droppedNewKeys > 0
    /\ MapGet(collectors[last.c].handlerTotals,
              handlerKeyOf(collectors[last.c], last.sample)).calls >= 2

\* a call whose callTimed activations have just run their finally blocks
CallFinished(l) == l.op \in {"completes", "settles"} /\ l.frames # <<>>

\* the sample the outermost callTimed activation of the finished call recorded
RecordedSample(l, now) == sampleOf(l.frames[1], now, l.original)

CallsOf(totals, k) == IF MapHas(totals, k) THEN MapGet(totals, k).calls ELSE 0
ErrorCountOf(totals, k) ==
    IF MapHas(totals, k) THEN MapGet(totals, k).errorCount ELSE 0
TotalMsOf(totals, k) == IF MapHas(totals, k) THEN MapGet(totals, k).totalMs ELSE 0

\* C6: with the cap not reached, a call of an instrumented callable that
\* settles, however often the patched bindCore has run over the runner and
\* passed the callable through the wrap functions again, adds exactly 1 to the
\* calls of exactly one handler aggregate and 1 to the calls of its extension
\* aggregate, and no other aggregate of any collector changes its calls.
C6_SettledCallCountsOnce ==
    [][(/\ CallFinished(last')
        /\ \A c \in CollectorIds :
              MapSize(collectors[c].handlerTotals) < collectors[c].maxHandlers)
       => LET c == last'.frames[1].collector
              sample == RecordedSample(last', clock)
              k == handlerKeyOf(collectors[c], sample)
              e == extensionPathOf(collectors[c], sample)
          IN  /\ \A d \in CollectorIds :
                    /\ \A k2 \in MapKeys(collectors[d].handlerTotals)
                                    \cup MapKeys(collectors'[d].handlerTotals) :
                          CallsOf(collectors'[d].handlerTotals, k2)
                             = CallsOf(collectors[d].handlerTotals, k2)
                                  + (IF d = c /\ k2 = k THEN 1 ELSE 0)
                    /\ \A e2 \in MapKeys(collectors[d].extensionTotals)
                                    \cup MapKeys(collectors'[d].extensionTotals) :
                          CallsOf(collectors'[d].extensionTotals, e2)
                             = CallsOf(collectors[d].extensionTotals, e2)
                                  + (IF d = c /\ e2 = e THEN 1 ELSE 0)
              /\ MapHas(collectors'[c].handlerTotals, k)
              /\ MapHas(collectors'[c].extensionTotals, e)]_vars

\* C6 witness: a call of a wrapped callable has completed after the patched
\* bindCore ran twice over the runner, and its aggregate counts it once.
C6_Witness ==
    /\ last.op = "completes"
    /\ last.frames # <<>>
    /\ proto.bindCore # <<>>
    /\ proto.bindCore[1].runs >= 2
    /\ recordCalls[1] = 1
    /\ LET col == collectors[last.frames[1].collector]
       IN  CallsOf(col.handlerTotals,
                   handlerKeyOf(col, RecordedSample(last, clock))) = 1

\* C7: a wrap function given a callable that is already wrapped returns that
\* very function and creates no function, whatever extension identity, name
\* or collector it is given.
C7_WrapIdempotentByReference ==
    [][(last'.op = "wrap" /\ fns[last'.handler].wrapped)
       => /\ last'.fn = last'.handler
          /\ fns' = fns]_vars

\* C7 witness: an already-wrapped callable went through another wrap function
\* with another extension, name and collector.
C7_Witness ==
    /\ last.op = "wrap"
    /\ last.wasWrapped
    /\ fns[last.handler].surface # last.args.surface
    /\ fns[last.handler].extensionPath # last.args.extensionPath
    /\ fns[last.handler].name # last.args.name
    /\ fns[last.handler].collector # last.args.collector

\* C8: patchRunnerPrototype on a prototype that is already patched returns
\* patched false, reason "already patched" and a coverage whose three flags
\* read "missing", and leaves the prototype's bindCore, the runner and every
\* function as they were; and no call ever runs more than one callTimed
\* activation, so counts are those of a single patch.
C8_SecondPatchIsRefused ==
    [][/\ (last'.op = "patchRunnerPrototype" /\ proto.patched)
          => /\ ~last'.status.patched
             /\ last'.status.reason = "already patched"
             /\ coverageOf(proto', last'.status) = AllMissing
             /\ proto' = proto
             /\ fns' = fns
             /\ runner' = runner
       /\ CallFinished(last') => Len(last'.frames) = 1]_vars

\* C8 witness: the prototype was patched, bindCore ran and instrumented the
\* runner, and patchRunnerPrototype was called again.
C8_Witness ==
    /\ last.op = "patchRunnerPrototype"
    /\ last.wasPatched
    /\ proto.bindCore[1].runs > 0
    /\ proto.bindCore[1].coverage # AllMissing
    /\ coverageOf(proto, last.status) = AllMissing

\* C9: the collector changes only when the value the original returned has
\* settled (never when the original returns a pending promise), and the
\* duration then recorded is max(0, clock at settlement - clock at entry).
C9_DurationIsEntryToSettlement ==
    [][/\ last'.op \in {"invoke", "returnsPromise", "tick"}
          => collectors' = collectors
       /\ CallFinished(last')
          => LET frame == last'.frames[1]
                 col == collectors[frame.collector]
                 k == handlerKeyOf(col, RecordedSample(last', clock))
                 span == clock - frame.start
             IN  /\ Len(last'.frames) = 1
                 /\ TotalMsOf(collectors'[frame.collector].handlerTotals, k)
                       = TotalMsOf(col.handlerTotals, k)
                            + (IF span > 0 THEN span ELSE 0)
                 /\ CallsOf(collectors'[frame.collector].handlerTotals, k)
                       = CallsOf(col.handlerTotals, k) + 1]_vars

\* C9 witness: one call took a tick of the clock, and a second one, entered at
\* a later reading than the one at which its promise settled, added nothing.
C9_Witness ==
    /\ last.op = "settles"
    /\ last.frames # <<>>
    /\ last.frames[1].start > clock
    /\ LET col == collectors[last.frames[1].collector]
           k == handlerKeyOf(col, RecordedSample(last, clock))
       IN  /\ CallsOf(col.handlerTotals, k) = 2
           /\ TotalMsOf(col.handlerTotals, k) = 1

\* the handler aggregate of the finished call counts one more call and one
\* more error
CountsOneError(l) ==
    LET c == l.frames[1].collector
        k == handlerKeyOf(collectors[c], RecordedSample(l, clock))
    IN  /\ CallsOf(collectors'[c].handlerTotals, k)
              = CallsOf(collectors[c].handlerTotals, k) + 1
        /\ ErrorCountOf(collectors'[c].handlerTotals, k)
              = ErrorCountOf(collectors[c].handlerTotals, k) + 1

\* C10 as stated: when the original throws or rejects with E, the wrapped
\* callable rejects with E and the handler's aggregate counts one more call
\* and one more error.
C10_RejectionAlwaysCounted ==
    [][(CallFinished(last') /\ last'.original = Rejected)
       => /\ last'.outcome = Rejected
          /\ CountsOneError(last')]_vars

\* C10: when the original throws or rejects with E, the wrapped callable
\* rejects with E; the handler's aggregate counts one more call and one more
\* error provided the sample is not dropped by the cap on handler keys; a
\* dropped sample adds 1 to droppedNewKeys and leaves the aggregates alone.
C10_RejectionPassesThrough ==
    [][(CallFinished(last') /\ last'.original = Rejected)
       => LET c == last'.frames[1].collector
              sample == RecordedSample(last', clock)
          IN  /\ last'.outcome = Rejected
              /\ ~sample.ok
              /\ IF isDropped(collectors[c], sample)
                 THEN /\ collectors'[c].droppedNewKeys
                            = collectors[c].droppedNewKeys + 1
                      /\ collectors'[c].handlerTotals = collectors[c].handlerTotals
                      /\ collectors'[c].extensionTotals
                            = collectors[c].extensionTotals
                 ELSE /\ CountsOneError(last')
                      /\ collectors'[c].droppedNewKeys
                            = collectors[c].droppedNewKeys]_vars

\* C10 witness: a promise of an instrumented callable rejected with E, the
\* wrapped callable rejected with E and its aggregate holds the error.
C10_Witness ==
    /\ last.op = "settles"
    /\ last.frames # <<>>
    /\ last.original = Rejected
    /\ last.outcome = Rejected
    /\ LET col == collectors[last.frames[1].collector]
           k == handlerKeyOf(col, RecordedSample(last, clock))
       IN  /\ CallsOf(col.handlerTotals, k) = 1
           /\ ErrorCountOf(col.handlerTotals, k) = 1

\* C5: while the extension is disabled, a call of a callable the patcher
\* instrumented leaves the collector as it was.
C5_DisabledCallsLeaveCollector ==
    [][(/\ last'.op = "completes"
        /\ last'.frames # <<>>
        /\ ~ext.enabled)
       => collectors' = collectors]_vars

\* C11: the caller of a wrapped callable observes what a caller of the
\* original observes: the same value or error, delivered the same way (by the
\* call itself, or through a promise).
C11_CallerObservesTheOriginal ==
    [][CallFinished(last')
       => /\ last'.outcome = last'.original
          /\ last'.delivery = last'.originalDelivery]_vars

\* the places of the runner a callable is registered at: the extension's
\* path, the surface and the event, command or tool name
SlotsOf(extensions, fn) ==
    UNION {
      {[path |-> extensions[i].path, surface |-> "event",
        name |-> extensions[i].handlers.entries[j].key] :
          j \in {j \in 1..Len(extensions[i].handlers.entries) :
                   \E n \in 1..Len(extensions[i].handlers.entries[j].value) :
                       extensions[i].handlers.entries[j].value[n] = fn}}
      \cup
      {[path |-> extensions[i].path, surface |-> "command",
        name |-> extensions[i].commands.entries[j].key] :
          j \in {j \in 1..Len(extensions[i].commands.entries) :
                   extensions[i].commands.entries[j].value = fn}}
      \cup
      {[path |-> extensions[i].path, surface |-> "tool",
        name |-> extensions[i].tools.entries[j].key] :
          j \in {j \in 1..Len(extensions[i].tools.entries) :
                   extensions[i].tools.entries[j].value = fn}} :
      i \in 1..Len(extensions)}

\* the sample a call of the callable registered at slot is to be recorded as
AttributedSample(slot, l, now) ==
    [extensionPath |-> Some(IF slot.path.defined THEN slot.path.value
                            ELSE <<"<unknown-extension>">>),
     surface |-> slot.surface,
     name |-> slot.name,
     ms |-> RecordedSample(l, now).ms,
     ok |-> RecordedSample(l, now).ok]

\* C12: once the patched bindCore has run on a runner, a call of a callable
\* registered by an extension as a handler of event E, as the handler of
\* command C or as the execute of tool T is recorded into the patch's
\* collector as a sample of (path, event, E), (path, command, C) or
\* (path, tool, T), with "<unknown-extension>" for an extension without a
\* path: its handler row, if the cap lets the sample in, carries that
\* identity and counts one more call, and no other row changes.
C12_RecordedUnderItsSlot ==
    [][CallFinished(last')
       => \A slot \in SlotsOf(runner.extensions, last'.fn) :
             LET sample == AttributedSample(slot, last', clock)
                 k == keyOf(sample.extensionPath.value, slot.surface, slot.name)
             IN  /\ collectors'[1] = recordInvocation(collectors[1], sample)
                 /\ collectors'[2] = collectors[2]
                 /\ ~isDropped(collectors[1], sample)
                    => /\ MapHas(collectors'[1].handlerTotals, k)
                       /\ MapGet(collectors'[1].handlerTotals, k).extensionPath
                             = sample.extensionPath.value
                       /\ MapGet(collectors'[1].handlerTotals, k).surface = slot.surface
                       /\ MapGet(collectors'[1].handlerTotals, k).name = slot.name
                       /\ CallsOf(collectors'[1].handlerTotals, k)
                             = CallsOf(collectors[1].handlerTotals, k) + 1
                       /\ \A k2 \in MapKeys(collectors'[1].handlerTotals) \ {k} :
                             /\ MapHas(collectors[1].handlerTotals, k2)
                             /\ MapGet(collectors'[1].handlerTotals, k2)
                                   = MapGet(collectors[1].handlerTotals, k2)]_vars

\* C12 witness: the command of an extension without a path was called and is
\* held under "<unknown-extension>".
C12_Witness ==
    /\ CallFinished(last)
    /\ \E slot \in SlotsOf(runner.extensions, last.fn) :
          ~slot.path.defined /\ slot.surface = "command"
    /\ MapHas(collectors[1].handlerTotals,
              keyOf(<<"<unknown-extension>">>, "command", <<"hello">>))
    /\ MapSize(collectors[1].handlerTotals) = 2

C14_OrthogonalCommands ==
    [][(/\ last'.op = "command"
        /\ last'.subcommand \in {"status", "reset", "save", "bogus"})
       => /\ ctl'.enabled = ctl.enabled
          /\ ext'.enabled = ext.enabled
          /\ ctl'.patchState = ctl.patchState
          /\ ext'.patchState = ext.patchState
          /\ proto' = proto /\ fns' = fns /\ runner' = runner /\ g' = g
          /\ last'.subcommand # "reset" => collectors' = collectors
          /\ last'.subcommand = "reset"
             => /\ collectors'[1] = resetCollector(collectors[1])
                /\ collectors'[2] = collectors[2]]_vars

\* an extension's collection of a surface, and the callables in it
CollectionOf(extension, surface) ==
    CASE surface = "events" -> extension.handlers
      [] surface = "commands" -> extension.commands
      [] surface = "tools" -> extension.tools
CallablesOf(extension, surface) ==
    IF surface = "events" THEN ListedFns(extension.handlers.entries)
    ELSE {CollectionOf(extension, surface).entries[j].value :
             j \in 1..Len(CollectionOf(extension, surface).entries)}
CoverageSurfaces == {"events", "commands", "tools"}

C16_InstrumentedIffNonEmpty ==
    [][(last'.op = "bindCore" /\ proto.bindCore # <<>>)
       => \A surface \in CoverageSurfaces :
             proto'.bindCore[1].coverage[surface]
                = IF \E i \in 1..Len(runner.extensions) :
                        /\ IsMap(CollectionOf(runner.extensions[i], surface))
                        /\ CollectionOf(runner.extensions[i], surface).entries # <<>>
                  THEN "instrumented" ELSE "missing"]_vars

\* the environments in which the runner class cannot be patched
FailingEnvironments == Environments \ {"ok"}

\* C17: when the runner module cannot be located or imported, or
\* ExtensionRunner or a bindCore function is missing, the patch attempt
\* returns (it does not throw) a status with patched false, a diagnostic
\* reason and a coverage that reads all "missing", and modifies no prototype,
\* function or runner; so does every later attempt made by `on`.
C17_PatchFailsSoft ==
    [][(/\ env \in FailingEnvironments
        /\ \/ last'.op = "activate"
           \/ last'.op = "command" /\ last'.subcommand = "on")
       => /\ last'.op = "activate" => last'.completion = "returns"
          /\ ensurePatched(env, g, ext, proto).completion = "returns"
          /\ ~ext'.patchState.patched
          /\ ext'.patchState.reason
                \in {"runner import failed: unable to locate core/extensions/runner.js.",
                     "runner import failed: error",
                     "ExtensionRunner.bindCore not found"}
          /\ coverageOf(proto', ext'.patchState) = AllMissing
          /\ g'.patchState = <<ext'.patchState>>
          /\ proto' = proto /\ ~proto'.patched /\ proto'.bindCore = <<>>
          /\ fns' = fns /\ runner' = runner]_vars

\* C17 witness: the extension was loaded where no runner.js can be found and
\* holds the diagnostic.
C17_Witness ==
    /\ last.op = "activate"
    /\ env = "notLocated"
    /\ ext.activated
    /\ ext.patchState
          = PatchStatus(FALSE,
               "runner import failed: unable to locate core/extensions/runner.js.", 0)
    /\ ~proto.patched

\* C18: where the patch attempt fails, activation and `on` return and leave
\* the profiler disabled, and no call is ever recorded.
C18_FailedPatchLeavesDisabled ==
    [][(env \in FailingEnvironments)
       => /\ collectors' = collectors
          /\ last'.op = "activate"
             => (ensurePatched(env, g, ext, proto).completion = "returns"
                 /\ ~ctl'.enabled /\ ~ext'.enabled)
          /\ (last'.op = "command" /\ last'.subcommand = "on")
             => (ensurePatched(env, g, ext, proto).completion = "returns"
                 /\ ~ctl'.enabled /\ ~ext'.enabled
                 /\ last'.response[1] = <<"enabled", "off">>)]_vars

\* the value of a property of a JSON line
FieldOf(line, key) == MapGet(line.json, key)

\* C19: once a patch attempt has been made its status is cached for the
\* process, and every later `status` text, saved session_meta record and
\* session_start check reports the reason, the patched flag and the coverage
\* of that cached status, whatever commands came in between.
C19_CachedPatchStatusIsReported ==
    [][(g.patchState # <<>>)
       => LET cached == g.patchState[1]
          IN  /\ (last'.op = "command" /\ last'.subcommand = "status")
                 => (/\ last'.response[2] = <<"patch", cached.reason>>
                     /\ last'.response[3] = <<"events", coverageOf(proto, cached).events>>
                     /\ last'.response[4]
                           = <<"commands", coverageOf(proto, cached).commands>>
                     /\ last'.response[5] = <<"tools", coverageOf(proto, cached).tools>>)
              /\ (last'.op = "command" /\ last'.subcommand = "save")
                 => (/\ FieldOf(last'.written[1].lines[1], "patch") = Str(cached.reason)
                     /\ FieldOf(last'.written[1].lines[1], "patched")
                           = Bool(cached.patched)
                     /\ FieldOf(last'.written[1].lines[1], "coverage")
                           = Obj(coverageOf(proto, cached)))
              /\ (last'.op = "session_start")
                 => (last'.warning
                        = IF ~cached.patched /\ cached.reason # "already patched"
                          THEN <<<<"ext-prof-spike inactive: ", cached.reason>>>>
                          ELSE <<>>)]_vars

\* a line holds the tag and exactly the properties of the object passed in
\* that have a value
HoldsExactly(line, tag, object) ==
    /\ MapHas(line.json, "type")
    /\ FieldOf(line, "type") = Str(tag)
    /\ \A i \in 1..Len(object) :
          object[i].value.t # "undefined"
          => /\ MapHas(line.json, object[i].key)
             /\ FieldOf(line, object[i].key) = object[i].value
    /\ MapKeys(line.json)
          = {"type"} \cup {object[i].key : i \in {j \in 1..Len(object) :
                                                   object[j].value.t # "undefined"}}

\* C20: for every sessionMeta and every list of rows the file saveSnapshot
\* writes is one line tagged "session_meta" with schemaVersion 1 and the
\* properties of sessionMeta, then one line tagged "aggregate" per row, in
\* order, with the properties of the row, and ends with a newline.
C20_SnapshotLines ==
    [][(last'.op = "saveSnapshot")
       => /\ Len(last'.written.lines) = 1 + Len(last'.aggregates)
          /\ HoldsExactly(last'.written.lines[1], "session_meta", last'.sessionMeta)
          /\ FieldOf(last'.written.lines[1], "schemaVersion") = Num(1)
          /\ \A i \in 1..Len(last'.aggregates) :
                HoldsExactly(last'.written.lines[i + 1], "aggregate",
                             last'.aggregates[i])
          /\ last'.written.trailingNewline]_vars

\* the complete snapshot of a saveSnapshot activation, as a file
CompleteSnapshot(activation) ==
    FileOf(saveSnapshot([outputPath |-> activation.outputPath,
                         sessionMeta |-> activation.sessionMeta,
                         aggregates |-> activation.aggregates]).lines)

\* C21: while saveSnapshot runs, and when it is interrupted or rejects at any
\* step, the output path holds what it held before the call or the complete
\* snapshot; the only step that changes the output path is the rename, taken
\* when the temporary file holds the complete snapshot.
C21_OutputPathNeverPartial ==
    [][/\ (saving'.pc # "idle")
          => files'[OutputPath] \in {saving'.before, CompleteSnapshot(saving')}
       /\ (files'[OutputPath] # files[OutputPath])
          => /\ last'.op = "rename"
             /\ files[saving.tmp] = CompleteSnapshot(saving)
             /\ files'[OutputPath] = CompleteSnapshot(saving)
       /\ (last'.op \in {"rejects", "interrupted"})
          => files'[OutputPath] = last'.saving.before]_vars

\* C21 witness: a call that would replace an earlier snapshot is interrupted
\* while the temporary file holds a part of the new text.
C21_Witness ==
    /\ last.op = "interrupted"
    /\ last.saving.pc = "write"
    /\ files[OutputPath].exists
    /\ files[last.saving.tmp].exists
    /\ Len(files[last.saving.tmp].text) \in 1..(Len(last.saving.lines) - 1)
    /\ CompleteSnapshot(last.saving) # files[OutputPath]

\* String.prototype.trim() leaves nothing: empty or whitespace only
IsBlank(s) == Trim(s) = <<>>

\* C22: after any recordInvocation no row of either summary has an empty or
\* whitespace-only extensionPath, and a recorded sample whose extensionPath is
\* undefined, empty or whitespace-only has its rows under the collector's
\* unknownExtensionKey in both summaries.
C22_NoBlankIdentityAtRest ==
    [][\A c \in CollectorIds :
          (last'.op = "recordInvocation" /\ last'.c = c)
          => LET byExtension == summarizeByExtension(collectors'[c])
                 byHandler == summarizeByHandler(collectors'[c])
                 sample == last'.sample
             IN  /\ \A i \in 1..Len(byExtension) :
                       ~IsBlank(byExtension[i].extensionPath)
                 /\ \A i \in 1..Len(byHandler) :
                       ~IsBlank(byHandler[i].extensionPath)
                 /\ ((~sample.extensionPath.defined
                         \/ IsBlank(sample.extensionPath.value))
                     /\ ~(last'.atCap /\ ~last'.keyWasPresent))
                    => /\ \E i \in 1..Len(byExtension) :
                             byExtension[i].extensionPath
                                = collectors[c].unknownExtensionKey
                       /\ \E i \in 1..Len(byHandler) :
                             /\ byHandler[i].extensionPath
                                   = collectors[c].unknownExtensionKey
                             /\ byHandler[i].surface = sample.surface
                             /\ byHandler[i].name = sample.name]_vars

\* the stored aggregates as rows, in the insertion order of their keys
StoredExtensionRows(col) ==
    [k \in 1..Len(col.extensionTotals) |->
        [extensionPath |-> col.extensionTotals[k].key,
         calls |-> col.extensionTotals[k].value.calls,
         totalMs |-> col.extensionTotals[k].value.totalMs,
         maxMs |-> col.extensionTotals[k].value.maxMs,
         errorCount |-> col.extensionTotals[k].value.errorCount]]
StoredHandlerRows(col) ==
    [k \in 1..Len(col.handlerTotals) |-> col.handlerTotals[k].value]

\* rows holds every stored row once, by totalMs descending, rows of equal
\* totalMs in the order of stored
IsSummaryOf(rows, stored) ==
    /\ Len(rows) = Len(stored)
    /\ \A i \in 1..Len(rows) : \E k \in 1..Len(stored) : stored[k] = rows[i]
    /\ LET place == [i \in 1..Len(rows) |->
                        CHOOSE k \in 1..Len(stored) : stored[k] = rows[i]]
       IN  \A i, j \in 1..Len(rows) :
              i < j => /\ place[i] # place[j]
                       /\ rows[i].totalMs >= rows[j].totalMs
                       /\ (rows[i].totalMs = rows[j].totalMs)
                          => place[i] < place[j]

\* the samples of the example: (a, 10), (a, 15), (b, 5)
ExampleSummary ==
    LET sample(extensionPath, name, ms) ==
            [extensionPath |-> Some(<<extensionPath>>), surface |-> "event",
             name |-> <<name>>, ms |-> ms, ok |-> TRUE]
        c0 == createCollector(ProfilerMaxHandlers, Undefined)
        c1 == recordInvocation(c0, sample("a.ts", "turn_start", 10))
        c2 == recordInvocation(c1, sample("a.ts", "turn_end", 15))
        c3 == recordInvocation(c2, sample("b.ts", "turn_start", 5))
    IN  summarizeByExtension(c3)

\* C23: both summaries hold every stored aggregate exactly once, by totalMs
\* descending, rows of equal totalMs in the insertion order of their keys;
\* the samples (a,10), (a,15), (b,5) give a with total 25 and 2 calls, then b
\* with total 5 and 1 call.
C23_SummariesSortedStable ==
    /\ \A c \in CollectorIds :
          /\ IsSummaryOf(summarizeByExtension(collectors[c]),
                         StoredExtensionRows(collectors[c]))
          /\ IsSummaryOf(summarizeByHandler(collectors[c]),
                         StoredHandlerRows(collectors[c]))
    /\ [i \in 1..Len(ExampleSummary) |->
          <<ExampleSummary[i].extensionPath, ExampleSummary[i].totalMs,
            ExampleSummary[i].calls>>]
          = <<<< <<"a.ts">>, 25, 2>>, << <<"b.ts">>, 5, 1>>>>

\* C23 witness: two handler rows of equal totalMs, the one inserted first
\* having more calls.
C23_Witness ==
    LET rows == summarizeByHandler(collectors[1])
    IN  /\ Len(rows) = 2
        /\ rows[1].totalMs = rows[2].totalMs
        /\ rows[1].totalMs > 0
        /\ rows[1].calls > rows[2].calls
        /\ rows[1] = collectors[1].handlerTotals[1].value

\* C24: resetCollector leaves both maps empty, droppedNewKeys 0 and
\* warnedCardinality false, and leaves maxHandlers and unknownExtensionKey as
\* they were; a collector that holds fewer than maxHandlers keys, as every
\* collector does after a reset, stores a sample for a new key and drops
\* nothing.
C24_ResetClearsCountersOnly ==
    [][\A c \in CollectorIds :
          /\ (last'.op = "resetCollector" /\ last'.c = c)
             => /\ collectors'[c].extensionTotals = <<>>
                /\ collectors'[c].handlerTotals = <<>>
                /\ collectors'[c].droppedNewKeys = 0
                /\ collectors'[c].warnedCardinality = FALSE
                /\ collectors'[c].maxHandlers = collectors[c].maxHandlers
                /\ collectors'[c].unknownExtensionKey
                      = collectors[c].unknownExtensionKey
                /\ MapSize(collectors'[c].handlerTotals)
                      < collectors'[c].maxHandlers
          /\ (/\ last'.op = "recordInvocation"
              /\ last'.c = c
              /\ ~last'.keyWasPresent
              /\ MapSize(collectors[c].handlerTotals) < collectors[c].maxHandlers)
             => /\ MapSize(collectors'[c].handlerTotals)
                      = MapSize(collectors[c].handlerTotals) + 1
                /\ MapHas(collectors'[c].handlerTotals,
                          handlerKeyOf(collectors[c], last'.sample))
                /\ collectors'[c].droppedNewKeys = collectors[c].droppedNewKeys]_vars

\* C24 witness: a full collector that has dropped samples has just been reset.
C24_Witness ==
    /\ last.op = "resetCollector"
    /\ last.atCap
    /\ last.dropped > 0
    /\ collectors[last.c].maxHandlers = MaxHandlersArg
    /\ collectors[last.c].unknownExtensionKey # DefaultUnknownExtensionKey
    /\ collectors[last.c].handlerTotals = <<>>

\* calls >= errorCount >= 0, and totalMs >= maxMs >= 0 once calls > 0
AggregateWellFormed(row) ==
    /\ row.calls >= row.errorCount
    /\ row.errorCount >= 0
    /\ (row.calls > 0) => (row.totalMs >= row.maxMs /\ row.maxMs >= 0)

\* C25: every stored aggregate, per extension and per handler, has
\* calls >= errorCount >= 0 and, once calls > 0, totalMs >= maxMs >= 0, after
\* any calls of wrapped callables.
C25_AggregatesWellFormed ==
    \A c \in CollectorIds :
        /\ \A i \in 1..Len(collectors[c].extensionTotals) :
              AggregateWellFormed(collectors[c].extensionTotals[i].value)
        /\ \A i \in 1..Len(collectors[c].handlerTotals) :
              AggregateWellFormed(collectors[c].handlerTotals[i].value)

\* C25 witness: a rejected call settled at an earlier clock reading than the
\* one it was entered at, after a call that took one tick.
C25_Witness ==
    /\ last.op \in {"completes", "settles"}
    /\ last.frames # <<>>
    /\ last.outcome = Rejected
    /\ last.frames[1].start > clock
    /\ \E i \in 1..Len(collectors[last.frames[1].collector].extensionTotals) :
          LET row == collectors[last.frames[1].collector].extensionTotals[i].value
          IN  row.calls = 2 /\ row.errorCount = 1 /\ row.totalMs = 1 /\ row.maxMs = 1

\* the aggregates of a Map by key: calls, totalMs, maxMs, errorCount
NumbersOf(totals) ==
    {<<totals[i].key, totals[i].value.calls, totals[i].value.totalMs,
       totals[i].value.maxMs, totals[i].value.errorCount>> : i \in 1..Len(totals)}

SameAggregates(a, b) ==
    /\ NumbersOf(a.extensionTotals) = NumbersOf(b.extensionTotals)
    /\ NumbersOf(a.handlerTotals) = NumbersOf(b.handlerTotals)
    /\ a.droppedNewKeys = b.droppedNewKeys

AllRecorded == recordCalls[1] = Len(last.samples)

\* the distinct handler keys of the samples
KeysOfSamples(col, samples) ==
    {handlerKeyOf(col, samples[i]) : i \in 1..Len(samples)}

\* C26 as stated: the same samples recorded into two fresh collectors in two
\* orders give the same aggregates per extension and per handler and the same
\* droppedNewKeys.
C26_AnyOrderSameAggregates ==
    AllRecorded => SameAggregates(collectors[1], collectors[2])

\* C26: the same holds for samples that have at most maxHandlers distinct
\* handler keys, none of which the cap drops.
C26_OrderIndependentBelowCap ==
    (/\ AllRecorded
     /\ Cardinality(KeysOfSamples(collectors[1], last.samples))
           <= collectors[1].maxHandlers)
    => /\ SameAggregates(collectors[1], collectors[2])
       /\ collectors[1].droppedNewKeys = 0

\* C26 witness: samples of two handlers of two extensions, recorded in two
\* orders that insert the keys in different order.
C26_Witness ==
    /\ AllRecorded
    /\ Len(last.samples) = MaxRecords
    /\ Cardinality(KeysOfSamples(collectors[1], last.samples)) = 2
    /\ collectors[1].maxHandlers = 2
    /\ Len(collectors[1].extensionTotals) = 2
    /\ collectors[1].handlerTotals # collectors[2].handlerTotals
    /\ \E i \in 1..2 : /\ collectors[1].handlerTotals[i].value.calls = 2
                       /\ collectors[1].handlerTotals[i].value.errorCount = 1
                       /\ collectors[1].handlerTotals[i].value.maxMs = 2
                       /\ last.samples[MaxRecords].ms = 1

\* C27: a call whose original has not settled contributes nothing: the
\* collectors change only in the step in which a call's original completes or
\* settles, by the samples of that call alone, and a call leaves the pending
\* calls only when its own promise settles (nothing times it out or cancels
\* it).
C27_UnsettledCallRecordsNothing ==
    [][/\ (collectors' # collectors)
          => /\ CallFinished(last')
             /\ collectors' = recordFrames(collectors, last'.frames, clock,
                                           last'.original)
       /\ \A call \in BagToSet(pending) :
             (CopiesIn(call, pending') < CopiesIn(call, pending))
             => /\ last'.op = "settles"
                /\ last'.fn = call.fn
                /\ last'.frames = call.frames
                /\ CopiesIn(call, pending') = CopiesIn(call, pending) - 1
       /\ \A call \in BagToSet(pending) :
             (CopiesIn(call, pending') >= CopiesIn(call, pending)
              /\ call.frames # <<>> /\ ~CallFinished(last'))
             => collectors' = collectors]_vars

\* C27 witness: a call of a wrapped callable is still pending after the clock
\* has moved on and a later call has been recorded.
C27_Witness ==
    /\ CallFinished(last)
    /\ \E call \in BagToSet(pending) :
          /\ call.frames # <<>>
          /\ call.frames[1].start < clock
          /\ call.frames[1].start < last.frames[1].start
          /\ call.fn = last.fn
          /\ LET col == collectors[call.frames[1].collector]
             IN  /\ Len(col.handlerTotals) = 1
                 /\ col.handlerTotals[1].value.calls = 1

\* C28: when the runner module is not found or has the wrong shape the
\* session_start handler surfaces the "inactive" warning the first time it
\* runs and never again in the process, and it surfaces none when the
\* prototype was patched.
C28_InactiveWarningOnce ==
    [][(last'.op = "session_start")
       => /\ proto.patched => last'.warning = <<>>
          /\ (env \in FailingEnvironments)
             => ((last'.warning # <<>>) <=> (ext.warnings = 0))]_vars

\* C29: the first recordInvocation that drops a new key at the cap sets
\* warnedCardinality (and warns); later drops leave it set, and only a reset
\* clears it.
C29_FirstDropSetsWarnedCardinality ==
    [][\A c \in CollectorIds :
          /\ (/\ last'.op = "recordInvocation"
              /\ last'.c = c
              /\ last'.atCap
              /\ ~last'.keyWasPresent)
             => collectors'[c].warnedCardinality
          /\ (collectors[c].warnedCardinality /\ last'.op # "resetCollector")
             => collectors'[c].warnedCardinality]_vars

\* C30: for a positive baseline computeOverheadPct returns
\* (profiledMs - baselineMs) / baselineMs * 100, which is 1 for (100, 101)
\* and -1 for (200, 198); for a baseline that is not positive it returns 0
\* whatever profiledMs is.
C30_OverheadPct ==
    [][(last'.op = "computeOverheadPct")
       => LET b == last'.baselineMs
              p == last'.profiledMs
              r == last'.result
          IN  /\ (b > 0) => /\ r.kind = "finite"
                            /\ r.den > 0
                            /\ r.num * b = (p - b) * 100 * r.den
              /\ (b <= 0) => /\ r.kind = "finite"
                             /\ r.num = 0
              /\ (b = 100 /\ p = 101) => (r.num = 1 /\ r.den = 1)
              /\ (b = 200 /\ p = 198) => (r.num = -1 /\ r.den = 1)]_vars

\* C30 witness: a baseline of 0 with a positive profiled duration gave 0.
C30_Witness ==
    /\ last.op = "computeOverheadPct"
    /\ last.baselineMs = 0
    /\ last.profiledMs = 101
    /\ last.result.num = 0

\* C31: the high-context reminder of the beads extension is one-time.  Between
\* two resets of the reminder flag (/beads-reset-reminder, or a toggle of beads
\* mode) at most one reminder is sent, and a reminder is sent only by a
\* turn_end that finds beads mode enabled, the context usage known and its
\* percentage at least 85.
C31_ReminderOncePerReset ==
    [][/\ beads'.reminders <= 1
       /\ (last'.op = "turn_end" /\ last'.sent # <<>>) =>
            /\ beads.beadsEnabled
            /\ last'.usage.defined
            /\ ~last'.usage.percent.null
            /\ last'.usage.percent.number >= 85
            /\ beads.reminders = 0
            /\ beads'.reminders = 1
            /\ last'.sent = <<[customType |-> "beads-context-warning",
                               display |-> FALSE]>>]_vars
\* a turn_end at 92% in beads mode that sends nothing: the reminder was sent
\* since the last reset
C31_Witness ==
    /\ last.op = "turn_end"
    /\ last.usage = [defined |-> TRUE, percent |-> Percent(92)]
    /\ last.sent = <<>>
    /\ beads.beadsEnabled
    /\ beads.reminders = 1

\* the words of a command line: the runs of tokens between whitespace
RECURSIVE WordsOf(_, _, _)
WordsOf(command, word, words) ==
    IF command = <<>> THEN (IF word = <<>> THEN words ELSE Append(words, word))
    ELSE IF Head(command) \in WhitespaceTokens
    THEN WordsOf(Tail(command), <<>>, IF word = <<>> THEN words ELSE Append(words, word))
    ELSE WordsOf(Tail(command), Append(word, Head(command)), words)

\* a literal `br close` invocation: the command's first word is br and its
\* second word is close
IsLiteralBrClose(inputCommand) ==
    /\ inputCommand.defined
    /\ LET words == WordsOf(inputCommand.value, <<>>, <<>>)
       IN  /\ Len(words) >= 2
           /\ words[1] = <<"br">>
           /\ words[2] = <<"close">>

\* C32: the tool_call hook of the beads extension blocks a bash tool call
\* whenever beads mode is enabled, the command is a literal `br close`
\* invocation and the git working tree is dirty, and it blocks no other tool
\* call.
C32_BlocksExactlyDirtyBrClose ==
    [][(last'.op = "tool_call") =>
         (last'.block <=> /\ beads.beadsEnabled
                          /\ last'.toolName = "bash"
                          /\ IsLiteralBrClose(last'.command)
                          /\ last'.dirty)]_vars

\* C33: priming of the beads extension is one-shot and re-armable.  Priming is
\* armed by a session_start in a beads project, by toggling beads mode on and
\* by session_before_compact while beads mode is enabled (beads.primes counts
\* the before_agent_start events that went on to prime since then).  A
\* before_agent_start goes on to inject the hidden beads-prime message exactly
\* when beads mode is enabled and none did since priming was armed, and no
\* message is injected while beads mode is off.
C33_PrimingOneShot ==
    [][/\ (last'.op = "before_agent_start") =>
            /\ (last'.returns = "awaits br") <=> (beads.beadsEnabled /\ beads.primes = 0)
            /\ (last'.returns = "awaits br") => beads'.priming = beads.priming + 1
            /\ (last'.returns = "undefined") => beads'.priming = beads.priming
       /\ (last'.op = "before_agent_start returns") =>
            /\ last'.message = [customType |-> "beads-prime", display |-> FALSE]
            /\ beads.beadsEnabled]_vars

\* C34: invocations of wrapped callables that overlap in time, several calls
\* of the same wrapped callable included, are measured apart.  A call in
\* flight changes no collector before it settles; when it settles, with other
\* calls still in flight, started before it or after it, its collector counts
\* one more call for its handler and adds max(0, clock at its settlement -
\* clock at its own entry), no other collector changes, and the calls still
\* in flight keep their own start: samples are folded in the order of
\* settlement.
C34_OverlappingCallsMeasuredApart ==
    [][/\ (last'.op \in {"invoke", "returnsPromise"}) => collectors' = collectors
       /\ (last'.op = "settles" /\ last'.frames # <<>>) =>
            LET frame == last'.frames[1]
                c == frame.collector
                k == handlerKeyOf(collectors[c], RecordedSample(last', clock))
                span == clock - frame.start
            IN  /\ Len(last'.frames) = 1
                /\ CallsOf(collectors'[c].handlerTotals, k)
                      = CallsOf(collectors[c].handlerTotals, k) + 1
                /\ TotalMsOf(collectors'[c].handlerTotals, k)
                      = TotalMsOf(collectors[c].handlerTotals, k)
                           + (IF span > 0 THEN span ELSE 0)
                /\ \A d \in CollectorIds \ {c} : collectors'[d] = collectors[d]
                /\ pending' (+) SetToBag({[fn |-> last'.fn, frames |-> last'.frames]})
                      = pending]_vars
\* two calls of one wrapped callable were in flight together, and the one
\* that started last has settled first: it is counted, with its own duration,
\* while the one that started a tick before it is still in flight
C34_Witness ==
    /\ last.op = "settles"
    /\ last.frames # <<>>
    /\ last.frames[1].start = 1
    /\ clock = 1
    /\ \E call \in BagToSet(pending) :
          /\ call.fn = last.fn
          /\ call.frames[1].start = 0
    /\ LET col == collectors[last.frames[1].collector]
           k == handlerKeyOf(col, RecordedSample(last, clock))
       IN  /\ CallsOf(col.handlerTotals, k) = 1
           /\ TotalMsOf(col.handlerTotals, k) = 0

\* C35: over any number of activations of the profiler extension and any
\* `on`, `off` and `status` commands in one process, the runner prototype's
\* bindCore is replaced at most once, and once an activation has made the
\* patch attempt every activation's status text reports the patch status and
\* the coverage of that attempt.
C35_PatchedOnceReportedAlike ==
    [][/\ Len(proto'.bindCore) <= 1
       /\ (last'.op = "command" /\ g.patchState # <<>>)
          => LET cached == g.patchState[1]
             IN  /\ g'.patchState = g.patchState
                 /\ last'.response[2] = <<"patch", cached.reason>>
                 /\ last'.response[3] = <<"events", coverageOf(proto', cached).events>>
                 /\ last'.response[4]
                       = <<"commands", coverageOf(proto', cached).commands>>
                 /\ last'.response[5] = <<"tools", coverageOf(proto', cached).tools>>]_vars

\* the coverage values a closure may hold before a bindCore call
CoverageStates == [CoverageSurfaces -> {"missing", "instrumented"}]

\* the PatchStatus the successful patchRunnerPrototype call returned
SuccessfulPatchStatus == PatchStatus(TRUE, "patched", 1)

\* C36: the coverage a successful PatchStatus carries is determined by the
\* most recent patched bindCore call alone.  It reads all "missing" from
\* patching to the first bindCore call, although patched is true; a bindCore
\* call leaves the coverage its runner gives whatever the coverage was before
\* it, so a surface no extension of this runner has as a Map reads "missing"
\* again; nothing but a bindCore call changes it; and the callables wrapped by
\* earlier bindCore calls, on this runner and on the runners before it, stay
\* wrapped and in their collections.
C36_CoverageOfLatestBindCore ==
    [][(proto'.patched) =>
         /\ proto'.bindCore[1].runs = 0
            => /\ SuccessfulPatchStatus.patched
               /\ coverageOf(proto', SuccessfulPatchStatus) = AllMissing
         /\ (last'.op = "bindCore" /\ proto.patched)
            => /\ \A before \in CoverageStates :
                     coverageOf(proto', SuccessfulPatchStatus)
                        = patchedBindCore(fns, runner.extensions,
                                          [proto.bindCore[1] EXCEPT !.coverage = before]
                                         ).closure.coverage
               /\ \A surface \in CoverageSurfaces :
                     (\A i \in 1..Len(runner.extensions) :
                         ~IsMap(CollectionOf(runner.extensions[i], surface)))
                     => coverageOf(proto', SuccessfulPatchStatus)[surface] = "missing"
               /\ runner'.earlier = runner.earlier
               /\ \A fn \in 1..Len(fns) : fns[fn].wrapped => fns'[fn] = fns[fn]
               /\ \A i \in 1..Len(runner.extensions), surface \in CoverageSurfaces :
                     \A fn \in CallablesOf(runner.extensions[i], surface) :
                        fns[fn].wrapped
                        => fn \in CallablesOf(runner'.extensions[i], surface)
         /\ (last'.op # "bindCore" /\ proto.patched)
            => /\ coverageOf(proto', SuccessfulPatchStatus)
                    = coverageOf(proto, SuccessfulPatchStatus)
               /\ \A fn \in 1..Len(fns) : fns'[fn] = fns[fn]]_vars
\* the second bindCore call ran on a runner without a tools Map after the first
\* ran on a runner with all three surfaces: tools read "missing" again, and
\* the earlier runner's tool is still wrapped
C36_Witness ==
    /\ last.op = "bindCore"
    /\ proto.patched
    /\ proto.bindCore[1].runs = 2
    /\ coverageOf(proto, SuccessfulPatchStatus)
          = [events |-> "instrumented", commands |-> "instrumented",
             tools |-> "missing"]
    /\ Len(runner.earlier) = 1
    /\ \E fn \in CallablesOf(runner.earlier[1][1], "tools") : fns[fn].wrapped
    /\ \E fn \in CallablesOf(runner.earlier[1][1], "commands") : fns[fn].wrapped

\* C37: `reset`, `off` and `on` leave the calls in flight alone, and a call of
\* a wrapped callable that settles, whatever commands were given since it
\* started, is recorded as one sample into the collector as it is then: its
\* handler counts one more call and max(0, clock at settlement - clock at
\* entry) more milliseconds than the collector held just before, and the
\* collector's extension totals are the sums of its handler totals.
C37_ResetKeepsCallsInFlight ==
    [][/\ (last'.op = "command") => (pending' = pending /\ running' = running)
       /\ (last'.op = "settles" /\ last'.frames # <<>>) =>
            LET frame == last'.frames[1]
                c == frame.collector
                k == handlerKeyOf(collectors[c], RecordedSample(last', clock))
                span == clock - frame.start
            IN  /\ Len(last'.frames) = 1
                /\ CallsOf(collectors'[c].handlerTotals, k)
                      = CallsOf(collectors[c].handlerTotals, k) + 1
                /\ TotalMsOf(collectors'[c].handlerTotals, k)
                      = TotalMsOf(collectors[c].handlerTotals, k)
                           + (IF span > 0 THEN span ELSE 0)
                /\ recordCalls'[c] = recordCalls[c] + 1
                /\ ExtensionTotalsConsistent(collectors'[c])]_vars
\* a call entered at 0 was in flight when `reset` was given and settled right
\* after it at 1: the emptied collector holds this one call with 1 ms
C37_Witness ==
    /\ last.op = "settles"
    /\ last.frames # <<>>
    /\ last.after = "reset"
    /\ last.frames[1].start = 0
    /\ clock = 1
    /\ recordCalls[1] = 1
    /\ LET col == collectors[last.frames[1].collector]
           k == handlerKeyOf(col, RecordedSample(last, clock))
       IN  /\ MapSize(col.handlerTotals) = 1
           /\ CallsOf(col.handlerTotals, k) = 1
           /\ TotalMsOf(col.handlerTotals, k) = 1

\* the calls of the handler aggregates of a collector, added up
HandlerCallsOf(col) ==
    SumSeq([i \in 1..Len(col.handlerTotals) |-> col.handlerTotals[i].value.calls])

\* C38: the recordInvocation calls made on a collector since its last reset
\* (or its creation) are as many as the calls of all its handler aggregates
\* plus droppedNewKeys; a sample adds 1 to exactly one of the two, and a
\* dropped sample adds 1 to droppedNewKeys also when its key was dropped
\* before.
C38_EverySampleCountedOnce ==
    [][/\ recordCalls'[1]
            = HandlerCallsOf(collectors'[1]) + collectors'[1].droppedNewKeys
       /\ (last'.op = "recordInvocation") =>
            LET dropped == last'.atCap /\ ~last'.keyWasPresent
            IN  /\ collectors'[1].droppedNewKeys
                      = collectors[1].droppedNewKeys + (IF dropped THEN 1 ELSE 0)
                /\ HandlerCallsOf(collectors'[1])
                      = HandlerCallsOf(collectors[1]) + (IF dropped THEN 0 ELSE 1)]_vars
\* three samples since the last reset, one of the handler that is kept and
\* two of handlers that are not: one call in the aggregates, two samples
\* dropped
C38_Witness ==
    /\ last.op = "recordInvocation"
    /\ recordCalls[1] = 3
    /\ collectors[1].maxHandlers = 1
    /\ HandlerCallsOf(collectors[1]) = 1
    /\ collectors[1].droppedNewKeys = 2
    /\ ~MapHas(collectors[1].handlerTotals, handlerKeyOf(collectors[1], last.sample))

\* the (extension identity, surface, operation name) triple of a sample
TripleOf(col, sample) ==
    <<extensionPathOf(col, sample), sample.surface, sample.name>>

\* C39: samples whose (extension identity, surface, operation name) triples
\* differ get different handler keys, and the handler row a sample is folded
\* into stores the extensionPath, surface and name of that sample.
C39_HandlerKeyInjective ==
    [][(last'.op = "recordInvocation")
       => /\ \A s1, s2 \in SampleInputs :
                TripleOf(collectors[1], s1) # TripleOf(collectors[1], s2)
                => handlerKeyOf(collectors[1], s1) # handlerKeyOf(collectors[1], s2)
          /\ ~(last'.atCap /\ ~last'.keyWasPresent)
             => LET row == MapGet(collectors'[1].handlerTotals,
                                  handlerKeyOf(collectors[1], last'.sample))
                IN  <<row.extensionPath, row.surface, row.name>>
                       = TripleOf(collectors[1], last'.sample)]_vars

=============================================================================
